---- MODULE Spec2Model ----
(***************************************************************************)
(* A model of the dataset I/O layer (elfantasma/io.py) and of the export   *)
(* command (amplus/command_line/__init__.py, export).                      *)
(*                                                                         *)
(* Conventions                                                             *)
(*   - A Python None is the empty tuple <<>>; a present value v is <<v>>.  *)
(*   - Filenames are tuples of one-character strings, so that              *)
(*     os.path.splitext and str.lower are computed, not assumed.           *)
(*   - Frame indices are 0-based as in the source.                         *)
(***************************************************************************)
EXTENDS Integers, Sequences, FiniteSets, TLC

VARIABLES
    filename,   \* dispatcher: the path handed to io.new / io.open
    fnExt,      \* dispatcher: the lower-case extension word the path was built with ("" = none)
    created,    \* dispatcher: what io.new(filename) returned
    opened,     \* dispatcher: what io.open(filename) returned
    mrcWriter,  \* round trip: the MrcFileWriter under test
    wrote,      \* round trip: the shape asked for, the last angle and position written per frame
    mrcReader,  \* round trip: the Reader that Reader.from_mrcfile returned
    args,       \* export: the parsed command line
    inputFile,  \* export: the file stored under args.filename
    pc,         \* export: the position of the command
    reader,     \* export: the Reader of the input
    loc,        \* export: the local variables (indices, roi, dtype, shape, pixel_size, j)
    writer,     \* export: the Writer of the output
    events,     \* export: the I/O calls made so far, in order
    call,       \* single function: the function called and its arguments
    result      \* single function: what the call returned or raised

dispatchVars == <<filename, fnExt, created, opened>>
mrcVars == <<mrcWriter, wrote, mrcReader>>
exportVars == <<args, inputFile, pc, reader, loc, writer, events>>
libVars == <<call, result>>
vars == <<dispatchVars, mrcVars, exportVars, libVars>>

None == <<>>
Some(v) == <<v>>

(***************************************************************************)
(* Strings as character tuples                                             *)
(***************************************************************************)
UpperAlpha ==
    <<"A","B","C","D","E","F","G","H","I","J","K","L","M",
      "N","O","P","Q","R","S","T","U","V","W","X","Y","Z">>
LowerAlpha ==
    <<"a","b","c","d","e","f","g","h","i","j","k","l","m",
      "n","o","p","q","r","s","t","u","v","w","x","y","z">>

LowerChar(c) ==
    IF \E k \in 1..Len(UpperAlpha) : UpperAlpha[k] = c
    THEN LowerAlpha[CHOOSE k \in 1..Len(UpperAlpha) : UpperAlpha[k] = c]
    ELSE c

UpperChar(c) ==
    IF \E k \in 1..Len(LowerAlpha) : LowerAlpha[k] = c
    THEN UpperAlpha[CHOOSE k \in 1..Len(LowerAlpha) : LowerAlpha[k] = c]
    ELSE c

\* str.lower() without the case folding: the extension is compared as typed
lowerKeepCase(s) == s

\* str.lower()
lower(s) == [k \in 1..Len(s) |-> LowerChar(s[k])]

\* the last position of character c in p, 0 when absent (str.rfind, 1-based)
rfind(p, c) ==
    IF \E k \in 1..Len(p) : p[k] = c
    THEN CHOOSE k \in 1..Len(p) : p[k] = c /\ \A m \in (k+1)..Len(p) : p[m] # c
    ELSE 0

\* os.path.splitext(p)[1]: the suffix from the last dot of the last path
\* component, unless that component consists of leading dots only up to it
splitext(p) ==
    LET sepIndex == rfind(p, "/")
        dotIndex == rfind(p, ".")
    IN  IF /\ dotIndex > sepIndex
           /\ \E k \in (sepIndex+1)..(dotIndex-1) : p[k] # "."
        THEN SubSeq(p, dotIndex, Len(p))
        ELSE <<>>

(***************************************************************************)
(* Format dispatcher: io.new and Reader.from_file                          *)
(***************************************************************************)
MrcExtensions == { <<".","m","r","c">> }

NexusExtensions ==
    { <<".","h","5">>, <<".","h","d","f","5">>, <<".","n","x">>,
      <<".","n","x","s">>, <<".","n","e","x","u","s">>,
      <<"n","x","t","o","m","o">> }

ImageExtensions ==
    { <<".","p","n","g">>, <<".","j","p","g">>, <<".","j","p","e","g">>,
      <<".","t","i","f">>, <<".","t","i","f","f">> }

\* io.new: the writer class constructed for a filename
new(fname) ==
    LET extension == lower(splitext(fname))
    IN  IF extension \in MrcExtensions THEN "MrcFileWriter"
        ELSE IF extension \in NexusExtensions THEN "NexusWriter"
        ELSE IF extension \in ImageExtensions THEN "ImageWriter"
        ELSE "RuntimeError"

\* Reader.from_file (io.open): the read constructor a filename is delegated to
from_file(fname) ==
    LET extension == lower(splitext(fname))
    IN  IF extension \in MrcExtensions THEN "from_mrcfile"
        ELSE IF extension \in NexusExtensions THEN "from_nexus"
        ELSE "RuntimeError"

(***************************************************************************)
(* Arrays.  An image is a record [cplx, px]: cplx tells whether the        *)
(* element type is complex (numpy.iscomplexobj), px is the tuple of rows,  *)
(* each pixel a pair <<re, im>> of integers.  Pixel values of the model    *)
(* lie on the real or the imaginary axis, where modulus and argument are   *)
(* exact: arguments are counted in quarter turns (pi/2), so pi is 2 and a  *)
(* full turn is 4.                                                         *)
(***************************************************************************)
Min2(a, b) == IF a <= b THEN a ELSE b
Max2(a, b) == IF a >= b THEN a ELSE b
AbsInt(a) == IF a < 0 THEN -a ELSE a

Height(img) == Len(img.px)
Width(img) == IF Len(img.px) = 0 THEN 0 ELSE Len(img.px[1])
ShapeOf(img) == <<Height(img), Width(img)>>

\* the pixels of an image, row by row
Flat(img) ==
    LET RECURSIVE cat(_)
        cat(r) == IF r > Height(img) THEN <<>> ELSE img.px[r] \o cat(r + 1)
    IN  cat(1)

\* the order numpy.min / numpy.max use: real part first, then imaginary part
PixLeq(a, b) == a[1] < b[1] \/ (a[1] = b[1] /\ a[2] <= b[2])

SeqMin(s) == CHOOSE k \in 1..Len(s) : \A m \in 1..Len(s) : PixLeq(s[k], s[m])
SeqMax(s) == CHOOSE k \in 1..Len(s) : \A m \in 1..Len(s) : PixLeq(s[m], s[k])

\* numpy.min(image), numpy.max(image) of a non-empty image
numpy_min(img) == Flat(img)[SeqMin(Flat(img))]
numpy_max(img) == Flat(img)[SeqMax(Flat(img))]

\* numpy.zeros of a frame shape
ZeroImage(h, w, cplx) ==
    [cplx |-> cplx, px |-> [r \in 1..h |-> [c \in 1..w |-> <<0, 0>>]]]

\* data[y0:y1, x0:x1] of one frame: slice bounds beyond the frame are clamped
Crop(img, x0, y0, x1, y1) ==
    LET ys == Min2(y1, Height(img))
        xs == Min2(x1, Width(img))
    IN  [cplx |-> img.cplx,
         px |-> [r \in 1..Max2(ys - y0, 0) |->
                    [c \in 1..Max2(xs - x0, 0) |-> img.px[y0 + r][x0 + c]]]]

\* numpy.rot90 with the columns read in the wrong direction (a clockwise turn)
rot90Clockwise(img) ==
    LET h == Height(img)
        w == Width(img)
    IN  [cplx |-> img.cplx,
         px |-> [r \in 1..w |-> [c \in 1..h |-> img.px[h + 1 - c][r]]]]

\* numpy.rot90(image): a quarter turn counter-clockwise, (h, w) -> (w, h)
rot90(img) ==
    LET h == Height(img)
        w == Width(img)
    IN  [cplx |-> img.cplx,
         px |-> [r \in 1..w |-> [c \in 1..h |-> img.px[c][w + 1 - r]]]]

\* |z| for z on an axis (exact integer square root of re^2 + im^2)
Modulus(z) ==
    CHOOSE n \in 0..(AbsInt(z[1]) + AbsInt(z[2])) : n * n = z[1] * z[1] + z[2] * z[2]

\* numpy.angle(z) in quarter turns, in (-2, 2]
Argument(z) ==
    IF z[2] = 0 THEN (IF z[1] < 0 THEN 2 ELSE 0)
    ELSE IF z[2] > 0 THEN 1 ELSE -1

\* numpy.unwrap along one row of phases (period 4 quarter turns)
UnwrapRow(row) ==
    LET correct(d) ==
            LET ddmod0 == ((d + 2) % 4) - 2
                ddmod == IF ddmod0 = -2 /\ d > 0 THEN 2 ELSE ddmod0
            IN  IF AbsInt(d) < 2 THEN 0 ELSE ddmod - d
        RECURSIVE cum(_)
        cum(k) == IF k <= 1 THEN 0 ELSE cum(k - 1) + correct(row[k] - row[k - 1])
    IN  [k \in 1..Len(row) |-> row[k] + cum(k)]

MapPixels(img, F(_)) ==
    [cplx |-> FALSE,
     px |-> [r \in 1..Height(img) |-> [c \in 1..Width(img) |-> <<F(img.px[r][c]), 0>>]]]

\* numpy.unwrap(numpy.real(numpy.angle(x))): unwraps along the last axis
PhaseUnwrap(img) ==
    LET ph == [r \in 1..Height(img) |-> [c \in 1..Width(img) |-> Argument(img.px[r][c])]]
    IN  [cplx |-> FALSE,
         px |-> [r \in 1..Height(img) |->
                    [c \in 1..Width(img) |-> <<UnwrapRow(ph[r])[c], 0>>]]]

ComplexModes ==
    {"complex", "real", "imaginary", "amplitude", "phase", "phase_unwrap",
     "square", "imaginary_square"}

\* the table of lambdas of export, applied to one image
Transform(mode, img) ==
    LET re(z) == z[1]
        imag(z) == z[2]
        sq(z) == Modulus(z) * Modulus(z)
        imsq(z) == z[2] * z[2] + 1
    IN  CASE mode = "complex" -> img
          [] mode = "real" -> MapPixels(img, re)
          [] mode = "imaginary" -> MapPixels(img, imag)
          [] mode = "amplitude" -> MapPixels(img, Modulus)
          [] mode = "phase" -> MapPixels(img, Argument)
          [] mode = "phase_unwrap" -> PhaseUnwrap(img)
          [] mode = "square" -> MapPixels(img, sq)
          [] mode = "imaginary_square" -> MapPixels(img, imsq)

\* the length scipy.signal.decimate leaves of an axis of length c: y[::q]
DecimatedLen(c, q) == (c + q - 1) \div q

\* rebin(data, shape): each axis is decimated by the factor c // d, where d is
\* the requested length.  The anti-aliasing filter of scipy.signal.decimate
\* is not computed: the image keeps the samples 0, q, 2q, ... of each axis.
\* A requested length of 0 gives a factor no decimation accepts.
RebinFails(img, shape) == shape[1] = 0 \/ shape[2] = 0

rebin(img, shape) ==
    LET qr == Height(img) \div shape[1]
        qc == Width(img) \div shape[2]
    IN  [cplx |-> img.cplx,
         px |-> [r \in 1..DecimatedLen(Height(img), qr) |->
                    [c \in 1..DecimatedLen(Width(img), qc) |->
                        img.px[(r - 1) * qr + 1][(c - 1) * qc + 1]]]]


(***************************************************************************)
(* Element types and indexing                                              *)
(***************************************************************************)
IsComplexDtype(dtype) == dtype \in {"complex64", "complex128"}

\* the narrowing table without its last row
NarrowDtypeRealOnly(dtype) ==
    CASE dtype = "int32" -> "int16"
      [] dtype = "uint32" -> "uint16"
      [] dtype = "float64" -> "float32"
      [] OTHER -> dtype

\* MrcFileWriter.__init__: the narrowing of the requested element type
NarrowDtype(dtype) ==
    CASE dtype = "int32" -> "int16"
      [] dtype = "uint32" -> "uint16"
      [] dtype = "float64" -> "float32"
      [] dtype = "complex128" -> "complex64"
      [] OTHER -> dtype

\* mrcfile.utils.mode_from_dtype: the element types the format has a mode
\* for; any other type raises ValueError
MrcModes == {"int8", "int16", "uint8", "uint16", "float16", "float32", "complex64"}

\* a[i] on an axis of length n: negative indices count from the end
IndexOk(i, n) == -n <= i /\ i < n
PyIndex(i, n) == IF i < 0 THEN n + i ELSE i

\* array assignment  target[j, :, :] = img : the image is cast to the stored
\* element type (a complex value stored in a real array loses its imaginary
\* part) and an axis of length 1 is broadcast
Broadcastable(img, h, w) ==
    /\ Height(img) \in {1, h}
    /\ Width(img) \in {1, w}

StoreAs(img, h, w, cplx) ==
    [cplx |-> cplx,
     px |-> [r \in 1..h |-> [c \in 1..w |->
                LET z == img.px[IF Height(img) = 1 THEN 1 ELSE r]
                               [IF Width(img) = 1 THEN 1 ELSE c]
                IN  IF cplx THEN z ELSE <<z[1], 0>>]]]

(***************************************************************************)
(* Binary-Volume backend: MrcFileWriter                                    *)
(***************************************************************************)
\* MrcFileWriter.__init__: the file behind the handle.  Pixel sizes of the
\* extended header are held in units of 1e-10 of the voxel size unit.
MrcFileWriter(shape, pixel_size, dtype) ==
    [class |-> "MrcFileWriter",
     handle |->
        [exttyp |-> "FEI1",
         extended_header_dtype |-> "FEI_EXTENDED_HEADER_DTYPE",
         dtype |-> NarrowDtype(dtype),
         shape |-> shape,
         voxel_size |-> pixel_size,
         extended_header |->
            [i \in 0..(shape[1] - 1) |->
                [AlphaTilt |-> 0, ShiftX |-> 0, ShiftY |-> 0,
                 PixelSizeX |-> pixel_size, PixelSizeY |-> pixel_size,
                 Application |-> "RFI Simulation"]],
         data |->
            [i \in 0..(shape[1] - 1) |->
                ZeroImage(shape[2], shape[3], IsComplexDtype(NarrowDtype(dtype)))],
         stats |-> None]]

\* MrcFileWriter.AngleProxy.__setitem__
MrcAngleSetItem(handle, item, data) ==
    [handle EXCEPT !.extended_header[item].AlphaTilt = data]

\* setitem_internal of MrcFileWriter.PositionProxy with the frame index of
\* the meshgrid ignored: every write lands in the first frame
MrcSetItemInternalRowZero(handle, j, i, d) ==
    IF i = 0 THEN [handle EXCEPT !.extended_header[0].ShiftX = d]
    ELSE IF i = 1 THEN [handle EXCEPT !.extended_header[0].ShiftY = d]
    ELSE handle

\* setitem_internal of MrcFileWriter.PositionProxy.__setitem__
MrcSetItemInternal(handle, j, i, d) ==
    IF i = 0 THEN [handle EXCEPT !.extended_header[j].ShiftX = d]
    ELSE IF i = 1 THEN [handle EXCEPT !.extended_header[j].ShiftY = d]
    ELSE handle

\* MrcFileWriter.PositionProxy.__setitem__ for an integer item: x[item] is
\* (0, 1, 2), y[item] is (item, item, item); zip stops at the shortest
MrcPositionSetItem(handle, item, data) ==
    LET x == <<0, 1, 2>>
        y == <<item, item, item>>
        RECURSIVE loop(_, _)
        loop(h, k) ==
            IF k > Min2(Len(x), Len(data)) THEN h
            ELSE loop(MrcSetItemInternal(h, y[k], x[k], data[k]), k + 1)
    IN  loop(handle, 1)

\* the smallest and largest stored value of the volume
VolumeStats(data, n) ==
    LET RECURSIVE all(_)
        all(i) == IF i >= n THEN <<>> ELSE Flat(data[i]) \o all(i + 1)
        v == all(0)
    IN  IF Len(v) = 0 THEN None ELSE Some(<<v[SeqMin(v)], v[SeqMax(v)]>>)

\* MrcFileWriter.update: handle.update_header_stats()
MrcUpdate(handle) ==
    [handle EXCEPT !.stats = VolumeStats(handle.data, handle.shape[1])]

(***************************************************************************)
(* Binary-Volume backend: Reader.from_mrcfile                              *)
(***************************************************************************)
\* Reader.__init__
Reader(kind, data, angle, position, pixel_size, shape, dtype) ==
    [kind |-> kind, data |-> data, angle |-> angle, position |-> position,
     pixel_size |-> pixel_size, shape |-> shape, dtype |-> dtype]

\* len() of an array held as a function on 0..(n - 1)
ArrayLen(a) == Cardinality(DOMAIN a)

\* the asserts of Reader.__init__ with the one on the position left out
ReaderDimsOkAngleOnly(data, angle, position) == ArrayLen(angle) = ArrayLen(data)

\* the asserts of Reader.__init__: "Inconsistent dimensions"
ReaderDimsOk(data, angle, position) ==
    /\ ArrayLen(angle) = ArrayLen(data)
    /\ ArrayLen(position) = ArrayLen(data)

\* Reader.num_images
num_images(self) == ArrayLen(self.angle)

\* a[lo:hi] of Python for 0 <= lo, hi <= len(a), renumbered from 0
PySlice(a, lo, hi) ==
    IF hi <= lo THEN << >> ELSE [i \in 0..(hi - lo - 1) |-> a[lo + i]]

\* zip(a, b): as many pairs as the shorter of the two has entries
PyZip(a, b) ==
    LET n == IF ArrayLen(a) <= ArrayLen(b) THEN ArrayLen(a) ELSE ArrayLen(b)
    IN  IF n = 0 THEN << >> ELSE [i \in 0..(n - 1) |-> <<a[i], b[i]>>]

\* a quotient p / q of integers, kept as the pair <<p, q>> with q > 0
SameQuotient(x, y) == x[1] * y[2] = y[1] * x[2]

\* Reader.step_angle: the value, or the error of angle[-1] on an empty array
step_angle(angle) ==
    LET n == ArrayLen(angle)
    IN  IF n = 1 THEN [raised |-> None, value |-> <<1, 1>>]
        ELSE IF n = 0 THEN [raised |-> Some("IndexError"), value |-> None]
        ELSE [raised |-> None, value |-> <<angle[n - 1] - angle[0], n - 1>>]

\* Reader.start_position and Reader.stop_position
start_position(position) == position[0][2]
stop_position(position) == position[ArrayLen(position) - 1][2]

\* the check of Reader.step_position over the pairs it is given: every
\* difference equals the step (the tolerance is below the unit of the values)
StepsUniform(pairs, step) ==
    \A k \in DOMAIN pairs : SameQuotient(<<pairs[k][2] - pairs[k][1], 1>>, step)

\* Reader.step_position with the check run over position[0:-1, 1] and
\* position[1:, 1]
step_positionAllPairs(position) ==
    LET n == ArrayLen(position)
        col == [i \in DOMAIN position |-> position[i][2]]
        step == <<col[n - 1] - col[0], n - 1>>
    IN  IF n > 1
        THEN IF StepsUniform(PyZip(PySlice(col, 0, n - 1), PySlice(col, 1, n)), step)
             THEN [raised |-> None, value |-> step]
             ELSE [raised |-> Some("AssertionError"), value |-> None]
        ELSE [raised |-> None, value |-> <<0, 1>>]

\* Reader.step_position: the check runs over zip(position[0:-1, 1],
\* position[1:1]), and position[1:1] has no rows
step_position(position) ==
    LET n == ArrayLen(position)
        col == [i \in DOMAIN position |-> position[i][2]]
        step == <<col[n - 1] - col[0], n - 1>>
    IN  IF n > 1
        THEN IF StepsUniform(PyZip(PySlice(col, 0, n - 1), PySlice(position, 1, 1)), step)
             THEN [raised |-> None, value |-> step]
             ELSE [raised |-> Some("AssertionError"), value |-> None]
        ELSE [raised |-> None, value |-> <<0, 1>>]

\* the asserts of Reader.from_mrcfile on a file that declares the FEI1 layout
MrcFileOk(handle) ==
    handle.exttyp = "FEI1" =>
        /\ handle.extended_header_dtype = "FEI_EXTENDED_HEADER_DTYPE"
        /\ Cardinality(DOMAIN handle.extended_header) = Cardinality(DOMAIN handle.data)

\* Reader.from_mrcfile with the per-frame fields read whatever layout the
\* header declares
from_mrcfileAnyLayout(handle) ==
    LET n == handle.shape[1]
        has(i) == i \in DOMAIN handle.extended_header
    IN  Reader("mrc", handle.data,
               [i \in 0..(n - 1) |->
                   IF has(i) THEN handle.extended_header[i].AlphaTilt ELSE 0],
               [i \in 0..(n - 1) |->
                   IF has(i) THEN <<handle.extended_header[i].ShiftX,
                                    handle.extended_header[i].ShiftY, 0>>
                   ELSE <<0, 0, 0>>],
               handle.voxel_size, handle.shape, handle.dtype)

\* Reader.from_mrcfile, for a file that passes the asserts
from_mrcfile(handle) ==
    LET n == handle.shape[1]
    IN  IF handle.exttyp = "FEI1"
        THEN Reader("mrc", handle.data,
                    [i \in 0..(n - 1) |-> handle.extended_header[i].AlphaTilt],
                    [i \in 0..(n - 1) |->
                        <<handle.extended_header[i].ShiftX,
                          handle.extended_header[i].ShiftY, 0>>],
                    handle.voxel_size, handle.shape, handle.dtype)
        ELSE Reader("mrc", handle.data,
                    [i \in 0..(n - 1) |-> 0],
                    [i \in 0..(n - 1) |-> <<0, 0, 0>>],
                    handle.voxel_size, handle.shape, handle.dtype)

(***************************************************************************)
(* Structured-Container backend: NexusWriter and Reader.from_nexus         *)
(***************************************************************************)
\* NexusWriter.__init__: the datasets of the detector and sample groups; the
\* members of the data group are links to them
NexusWriter(shape, pixel_size, dtype) ==
    LET n == shape[1]
        zeros == [i \in 0..(n - 1) |-> 0]
    IN  [class |-> "NexusWriter",
         handle |->
            [definition |-> Some("NXtomo"),
             NX_class |-> "NXentry",
             dtype |-> dtype,
             shape |-> shape,
             data |-> [i \in 0..(n - 1) |->
                          ZeroImage(shape[2], shape[3], IsComplexDtype(dtype))],
             image_key |-> zeros,
             x_pixel_size |-> [i \in 0..(n - 1) |-> pixel_size],
             y_pixel_size |-> [i \in 0..(n - 1) |-> pixel_size],
             rotation_angle |-> zeros,
             x_translation |-> zeros,
             y_translation |-> zeros,
             z_translation |-> zeros,
             x_shift |-> zeros,
             y_shift |-> zeros]]

\* the group of the entry that holds a dataset, and the members the data
\* group is given
NexusCanonicalGroup(name) ==
    IF name \in {"data", "image_key", "x_pixel_size", "y_pixel_size"}
    THEN "detector" ELSE "sample"

DataGroupMembers ==
    {"data", "rotation_angle", "x_translation", "y_translation", "z_translation",
     "x_shift", "y_shift", "image_key"}

\* the links of the data group with x_translation bound to the dataset of
\* y_translation
NexusLinkCrossed(group, name) ==
    IF group = "data" /\ name = "x_translation" THEN "y_translation"
    ELSE IF group = NexusCanonicalGroup(name) \/ (group = "data" /\ name \in DataGroupMembers)
    THEN name
    ELSE ""

\* the stored dataset a member of a group is bound to ("": no such member):
\* data[name] = detector[name] and data[name] = sample[name] bind the member
\* of the data group to the dataset of the canonical group
NexusLink(group, name) ==
    IF group = NexusCanonicalGroup(name) \/ (group = "data" /\ name \in DataGroupMembers)
    THEN name
    ELSE ""

\* group[name], and group[name][j] = d
NexusView(handle, group, name) == handle[NexusLink(group, name)]
NexusWriteThrough(handle, group, name, j, d) ==
    [handle EXCEPT ![NexusLink(group, name)][j] = d]

\* setitem_internal of NexusWriter.ShiftProxy.__setitem__
NexusShiftSetItemInternal(handle, j, i, d) ==
    IF i = 0 THEN NexusWriteThrough(handle, "data", "x_shift", j, d)
    ELSE IF i = 1 THEN NexusWriteThrough(handle, "data", "y_shift", j, d)
    ELSE handle

\* NexusWriter.ShiftProxy.__setitem__ for an integer item
NexusShiftSetItem(handle, item, data) ==
    LET x == <<0, 1>>
        y == <<item, item>>
        RECURSIVE loop(_, _)
        loop(h, k) ==
            IF k > Min2(Len(x), Len(data)) THEN h
            ELSE loop(NexusShiftSetItemInternal(h, y[k], x[k], data[k]), k + 1)
    IN  loop(handle, 1)

\* setitem_internal of NexusWriter.PositionProxy.__setitem__
NexusSetItemInternal(handle, j, i, d) ==
    IF i = 0 THEN NexusWriteThrough(handle, "data", "x_translation", j, d)
    ELSE IF i = 1 THEN NexusWriteThrough(handle, "data", "y_translation", j, d)
    ELSE IF i = 2 THEN NexusWriteThrough(handle, "data", "z_translation", j, d)
    ELSE handle

\* NexusWriter.PositionProxy.__setitem__ for an integer item
NexusPositionSetItem(handle, item, data) ==
    LET x == <<0, 1, 2>>
        y == <<item, item, item>>
        RECURSIVE loop(_, _)
        loop(h, k) ==
            IF k > Min2(Len(x), Len(data)) THEN h
            ELSE loop(NexusSetItemInternal(h, y[k], x[k], data[k]), k + 1)
    IN  loop(handle, 1)

\* the checks of Reader.from_nexus without the one on the definition
NexusEntryOkClassOnly(handle) == handle.NX_class = "NXentry"

\* the checks of Reader.from_nexus on the entry
NexusEntryOk(handle) ==
    /\ handle.NX_class = "NXentry"
    /\ handle.definition = Some("NXtomo")

\* Reader.from_nexus, for an entry that passes the checks
from_nexus(handle) ==
    LET n == handle.shape[1]
    IN  Reader("nexus", handle.data, handle.rotation_angle,
               [i \in 0..(n - 1) |->
                   <<handle.x_translation[i], handle.y_translation[i],
                     handle.z_translation[i]>>],
               handle.x_pixel_size[0], handle.shape, handle.dtype)

(***************************************************************************)
(* Image-Sequence backend: ImageWriter                                     *)
(***************************************************************************)
\* a value range endpoint: the scalar and whether it is a Python float (an
\* option of the command line) or a numpy scalar (a computed minimum)
PyFloat(x) == [v |-> <<x, 0>>, py |-> TRUE]
NpScalar(z) == [v |-> z, py |-> FALSE]

\* ImageWriter.__init__
ImageWriter(template, shape, vmin, vmax) ==
    [class |-> "ImageWriter",
     template |-> template,
     shape |-> shape,
     vmin |-> vmin,
     vmax |-> vmax,
     angle |-> [i \in 0..(shape[1] - 1) |-> 0],
     position |-> [i \in 0..(shape[1] - 1) |-> <<0, 0, 0>>],
     pixel_size |-> 0,
     files |-> [i \in {} |-> None]]

\* the asserts of ImageWriter.DataProxy.__setitem__ on the frame shape
ImageShapeOk(w, img) ==
    /\ Height(img) = w.shape[2]
    /\ Width(img) = w.shape[3]

\* the frame after the squared-amplitude conversion of a complex frame
ImageReal(img) ==
    LET sq(z) == Modulus(z) * Modulus(z)
    IN  IF img.cplx THEN MapPixels(img, sq) ELSE img

\* the lower endpoint taken from the fixed range also for a complex frame
ImageVminKeepFixed(w, img) ==
    IF w.vmin = None THEN NpScalar(numpy_min(ImageReal(img))) ELSE w.vmin[1]

\* the endpoints ImageWriter.DataProxy.__setitem__ rescales the frame with
ImageVmin(w, img) ==
    IF img.cplx \/ w.vmin = None THEN NpScalar(numpy_min(ImageReal(img))) ELSE w.vmin[1]

ImageVmax(w, img) ==
    IF img.cplx \/ w.vmax = None THEN NpScalar(numpy_max(ImageReal(img))) ELSE w.vmax[1]

\* 255.0 / (vmax - vmin) raises ZeroDivisionError for two equal Python floats;
\* with a numpy scalar on either side the quotient is inf and nothing is raised
ImageScaleFails(w, img) ==
    /\ ImageVmin(w, img).py
    /\ ImageVmax(w, img).py
    /\ ImageVmin(w, img).v = ImageVmax(w, img).v

\* ImageWriter.DataProxy.__setitem__ for a frame that is accepted: the file
\* of frame item is saved under the 1-based index, with the range it was
\* rescaled with; a complex frame clears the fixed range of the writer
ImageSetItem(w, item, img) ==
    [w EXCEPT
        !.vmin = IF img.cplx THEN None ELSE w.vmin,
        !.vmax = IF img.cplx THEN None ELSE w.vmax,
        !.files = (item + 1) :> [vmin |-> ImageVmin(w, img).v[1],
                                 vmax |-> ImageVmax(w, img).v[1],
                                 data |-> ImageReal(img)]
                  @@ w.files]

\* a / b for b > 0, rounded toward zero
TruncDiv(a, b) == IF a >= 0 THEN a \div b ELSE -((-a) \div b)

\* data * s1 + s0 for one value, with s1 = 255.0 / (vmax - vmin) and
\* s0 = -s1 * vmin: a number (kept to its integer part), or for vmax = vmin
\* the infinity or the nan the floating-point operations give
Scaled(p, vmin, vmax) ==
    IF vmax > vmin
    THEN [kind |-> "num", n |-> TruncDiv(255 * (p - vmin), vmax - vmin)]
    ELSE IF vmax < vmin
    THEN [kind |-> "num", n |-> TruncDiv(255 * (vmin - p), vmin - vmax)]
    ELSE LET t == IF p > 0 THEN "posinf" ELSE IF p < 0 THEN "neginf" ELSE "nan"
             o == IF vmin > 0 THEN "neginf" ELSE IF vmin < 0 THEN "posinf" ELSE "nan"
         IN  [kind |-> IF t = "nan" \/ o = "nan" \/ t # o THEN "nan" ELSE t, n |-> 0]

\* what the conversion of a float outside 0..255 to uint8 gives depends on
\* the platform: the low byte of the integer conversion, or the nearest end
Builds == {"wrap", "saturate"}

\* astype(numpy.uint8) of one scaled value
AsUint8(x, build) ==
    CASE x.kind = "nan" -> 0
      [] x.kind = "neginf" -> 0
      [] x.kind = "posinf" -> (IF build = "wrap" THEN 0 ELSE 255)
      [] x.kind = "num" ->
            IF x.n >= 0 /\ x.n <= 255 THEN x.n
            ELSE IF build = "wrap" THEN x.n % 256
            ELSE IF x.n < 0 THEN 0 ELSE 255

\* the image saved for a file: (data * s1 + s0).astype(numpy.uint8)
SavedImage(file, build) ==
    [r \in 1..Height(file.data) |->
        [c \in 1..Width(file.data) |->
            AsUint8(Scaled(file.data.px[r][c][1], file.vmin, file.vmax), build)]]


(***************************************************************************)
(* Dispatcher inputs: prefix + "." + extension word in some letter case    *)
(***************************************************************************)
ExtWords ==
    [ mrc    |-> <<"m","r","c">>,
      h5     |-> <<"h","5">>,
      hdf5   |-> <<"h","d","f","5">>,
      nx     |-> <<"n","x">>,
      nxs    |-> <<"n","x","s">>,
      nexus  |-> <<"n","e","x","u","s">>,
      nxtomo |-> <<"n","x","t","o","m","o">>,
      png    |-> <<"p","n","g">>,
      jpg    |-> <<"j","p","g">>,
      jpeg   |-> <<"j","p","e","g">>,
      tif    |-> <<"t","i","f">>,
      tiff   |-> <<"t","i","f","f">>,
      txt    |-> <<"t","x","t">>,
      mrcs   |-> <<"m","r","c","s">> ]

ExtNames == DOMAIN ExtWords

\* path prefixes whose last component holds a non-dot character
Prefixes ==
    { <<"s","c","a","n">>,
      <<"a",".","m","r","c">>,
      <<"d",".","h","5","/","s">>,
      <<"i","m","g","_","%","d">> }

\* paths without an extension: no dot in the last component, or only leading dots
BareNames ==
    { <<"s","c","a","n">>, <<"n","x","t","o","m","o">>, <<"m","r","c">>,
      <<".","m","r","c">>, <<"d",".","h","5","/","s">>,
      <<"d","/",".",".","h","5">> }

Cases == {"lower", "upper", "mixed"}

InCase(w, c) ==
    [k \in 1..Len(w) |->
        IF c = "upper" \/ (c = "mixed" /\ k % 2 = 1) THEN UpperChar(w[k]) ELSE w[k]]

DispatchInit ==
    /\ created = None
    /\ opened = None
    /\ \/ \E p \in Prefixes, e \in ExtNames, c \in Cases :
            /\ filename = p \o <<".">> \o InCase(ExtWords[e], c)
            /\ fnExt = e
       \/ \E b \in BareNames :
            /\ filename = b
            /\ fnExt = ""

\* a call of io.new(filename, ...)
IoNew ==
    /\ created = None
    /\ created' = Some(new(filename))
    /\ UNCHANGED <<filename, fnExt, opened, mrcVars, exportVars, libVars>>

\* a call of io.open(filename)
IoOpen ==
    /\ opened = None
    /\ opened' = Some(from_file(filename))
    /\ UNCHANGED <<filename, fnExt, created, mrcVars, exportVars, libVars>>

DispatchNext == IoNew \/ IoOpen

DispatchIdle ==
    /\ filename = <<>>
    /\ fnExt = ""
    /\ created = None
    /\ opened = None

(***************************************************************************)
(* Round trip through the Binary-Volume backend: a caller writes angles    *)
(* and positions through the proxies of a new MrcFileWriter, then the file *)
(* is opened with Reader.from_mrcfile.                                     *)
(***************************************************************************)
MaxFrames == 3

FrameCounts == 1..MaxFrames

RoundTripShapes == { <<n, 2, 3>> : n \in FrameCounts }
RoundTripAngles == {-10, 20}
RoundTripPositions == { <<x, y, z>> : x \in {3, -4}, y \in {5}, z \in {0, 9} }

MrcInit ==
    /\ \E shape \in RoundTripShapes :
        /\ mrcWriter = MrcFileWriter(shape, 1, "float64")
        /\ wrote = [shape |-> shape,
                    angle |-> [i \in 0..(shape[1] - 1) |-> None],
                    position |-> [i \in 0..(shape[1] - 1) |-> None]]
    /\ mrcReader = None

MrcIdle ==
    /\ mrcWriter = None
    /\ wrote = None
    /\ mrcReader = None

\* writer.angle[i] = a
MrcWriteAngle(i, a) ==
    /\ mrcReader = None
    /\ mrcWriter' = [mrcWriter EXCEPT !.handle = MrcAngleSetItem(@, i, a)]
    /\ wrote' = [wrote EXCEPT !.angle[i] = Some(a)]
    /\ UNCHANGED <<mrcReader, dispatchVars, exportVars, libVars>>

\* writer.position[i] = p
MrcWritePosition(i, p) ==
    /\ mrcReader = None
    /\ mrcWriter' = [mrcWriter EXCEPT !.handle = MrcPositionSetItem(@, i, p)]
    /\ wrote' = [wrote EXCEPT !.position[i] = Some(p)]
    /\ UNCHANGED <<mrcReader, dispatchVars, exportVars, libVars>>

\* Reader.from_mrcfile(filename) on the file written so far
MrcRead ==
    /\ mrcReader = None
    /\ mrcReader' = Some(from_mrcfile(mrcWriter.handle))
    /\ UNCHANGED <<mrcWriter, wrote, dispatchVars, exportVars, libVars>>

MrcNext ==
    \/ \E i \in DOMAIN wrote.angle, a \in RoundTripAngles : MrcWriteAngle(i, a)
    \/ \E i \in DOMAIN wrote.position, p \in RoundTripPositions : MrcWritePosition(i, p)
    \/ MrcRead


(***************************************************************************)
(* The export command                                                      *)
(***************************************************************************)
\* a range that takes its stop value in: start, start + step, ... up to stop
PyRangeInclusive(item) ==
    LET start == IF Len(item) = 1 THEN 0 ELSE item[1]
        stop == IF Len(item) = 1 THEN item[1] ELSE item[2]
        step == IF Len(item) = 3 THEN item[3] ELSE 1
        len == IF step > 0
               THEN (IF stop >= start THEN (stop - start) \div step + 1 ELSE 0)
               ELSE (IF stop <= start THEN (start - stop) \div (-step) + 1 ELSE 0)
    IN  [k \in 1..len |-> start + (k - 1) * step]

\* range(*item) for one, two or three integers (the step is not 0)
PyRange(item) ==
    LET start == IF Len(item) = 1 THEN 0 ELSE item[1]
        stop == IF Len(item) = 1 THEN item[1] ELSE item[2]
        step == IF Len(item) = 3 THEN item[3] ELSE 1
        len == IF step > 0
               THEN (IF stop > start THEN (stop - start + step - 1) \div step ELSE 0)
               ELSE (IF stop < start THEN (start - stop - step - 1) \div (-step) ELSE 0)
    IN  [k \in 1..len |-> start + (k - 1) * step]

RangeFails(item) == Len(item) = 0 \/ Len(item) > 3 \/ (Len(item) = 3 /\ item[3] = 0)

\* the frames an angle range keeps, with the upper bound included as well
SelectByAngleClosed(angle, n, rotation_range) ==
    LET RECURSIVE scan(_)
        scan(i) ==
            IF i >= n THEN <<>>
            ELSE (IF angle[i] >= rotation_range[1] /\ angle[i] <= rotation_range[2]
                  THEN <<i>> ELSE <<>>) \o scan(i + 1)
    IN  scan(0)

\* the loop over range(reader.shape[0]) that keeps the frames of an angle range
SelectByAngle(angle, n, rotation_range) ==
    LET RECURSIVE scan(_)
        scan(i) ==
            IF i >= n THEN <<>>
            ELSE (IF angle[i] >= rotation_range[1] /\ angle[i] < rotation_range[2]
                  THEN <<i>> ELSE <<>>) \o scan(i + 1)
    IN  scan(0)

\* the interlacing loop with the blocks put together from the last offset to
\* the first
InterlaceBlocksReversed(indices, k) ==
    LET block(i) ==
            LET RECURSIVE take(_)
                take(j) == IF j >= Len(indices) THEN <<>>
                           ELSE <<indices[j + 1]>> \o take(j + k)
            IN  take(i)
        RECURSIVE blocks(_)
        blocks(i) == IF i >= k THEN <<>> ELSE blocks(i + 1) \o block(i)
    IN  blocks(0)

\* the interlacing loop: for each offset i, the entries at i, i + k, i + 2k, ...
Interlace(indices, k) ==
    LET block(i) ==
            LET RECURSIVE take(_)
                take(j) == IF j >= Len(indices) THEN <<>>
                           ELSE <<indices[j + 1]>> \o take(j + k)
            IN  take(i)
        RECURSIVE blocks(_)
        blocks(i) == IF i >= k THEN <<>> ELSE block(i) \o blocks(i + 1)
    IN  blocks(0)

\* "Interlace the images": the loop runs for a factor above 1 only
Interlaced(indices, interlace) ==
    IF interlace # None /\ interlace[1] > 1
    THEN Interlace(indices, interlace[1])
    ELSE indices

\* the frame of the write loop with the transform applied before the rotation
PipelineTransformFirst(a, img) ==
    LET transformed == Transform(a.complex_mode, img)
        rotated == IF a.rot90 THEN rot90(transformed) ELSE transformed
    IN  IF a.rebin # 1
        THEN rebin(rotated, <<Height(rotated) \div a.rebin, Width(rotated) \div a.rebin>>)
        ELSE rotated

\* the frame of the write loop after "Rotate if necessary" and "Transform if
\* necessary", before "Rebin the array"
Oriented(a, img) ==
    LET rotated == IF a.rot90 THEN rot90(img) ELSE img
    IN  Transform(a.complex_mode, rotated)

\* the body of the write loop between reading the cropped frame and writing it
Pipeline(a, img) ==
    LET transformed == Oriented(a, img)
    IN  IF a.rebin # 1
        THEN rebin(transformed,
                   <<Height(transformed) \div a.rebin, Width(transformed) \div a.rebin>>)
        ELSE transformed

PipelineFails(a, img) ==
    /\ a.rebin # 1
    /\ RebinFails(Oriented(a, img),
                  <<Height(Oriented(a, img)) \div a.rebin,
                    Width(Oriented(a, img)) \div a.rebin>>)

\* the position handed on as it was read, rotated or not
SwapPositionNever(a, position) == position

\* position = (position[1], position[0], position[2]) when rotating
SwapPosition(a, position) ==
    IF a.rot90 THEN <<position[2], position[1], position[3]>> ELSE position

\* reader.data[i, y0:y1, x0:x1]
ReadCrop(rd, i, roi) ==
    Crop(rd.data[PyIndex(i, rd.shape[1])], roi[1], roi[2], roi[3], roi[4])

\* "if args.vmin:" : the option is present and is not 0
Truthy(opt) == opt # None /\ opt[1] # 0

\* the minimum of the first frame taken for the minimum of the stack
MinOfFirst(s) == s[1]

\* the smallest / largest element of a non-empty tuple of scalars
MinOf(s) == s[SeqMin(s)]
MaxOf(s) == s[SeqMax(s)]

NoLoc ==
    [selected |-> None, indices |-> None, roi |-> None, dtype |-> None,
     shape |-> None, pixel_size |-> None, j |-> 0, handed |-> <<>>]


(***************************************************************************)
(* Inputs of export: datasets on disk and command lines                    *)
(***************************************************************************)
R(v) == <<v, 0>>
I(v) == <<0, v>>

\* a real stack: the frames have the value ranges {0,100}, {5,50}, {-2,60}, {1,1}
RealFrames ==
    << << <<R(0), R(100), R(7)>>, <<R(3), R(50), R(20)>> >>,
       << <<R(5), R(50), R(6)>>, <<R(10), R(30), R(40)>> >>,
       << <<R(-2), R(1), R(4)>>, <<R(8), R(9), R(60)>> >>,
       << <<R(1), R(1), R(1)>>, <<R(1), R(1), R(1)>> >>,
       << <<R(2), R(0), R(9)>>, <<R(4), R(4), R(-1)>> >> >>

\* a complex stack whose phases jump by more than half a turn along rows
ComplexFrames ==
    << << <<I(-1), R(-1), R(2)>>, <<R(1), R(1), R(0)>> >>,
       << <<I(1), I(-2), R(-1)>>, <<R(2), I(-1), I(1)>> >>,
       << <<R(1), I(1), R(-1)>>, <<I(-1), I(2), R(0)>> >>,
       << <<R(-3), I(-1), R(1)>>, <<I(3), R(-1), I(-1)>> >>,
       << <<R(0), R(0), I(1)>>, <<R(-1), I(-1), R(2)>> >> >>

Datasets ==
    [ real |->
        [dtype |-> "float32", frames |-> RealFrames, pixel_size |-> 2,
         angle |-> [i \in 0..4 |-> 10 * i],
         position |-> [i \in 0..4 |-> <<i, i, 0>>]],
      cplx |->
        [dtype |-> "complex64", frames |-> ComplexFrames, pixel_size |-> 1,
         angle |-> [i \in 0..4 |-> (20 * (i + 1)) % 50],
         position |-> [i \in 0..4 |-> <<2 * i + 1, i, 0>>]],
      tomo |->
        [dtype |-> "int32", frames |-> RealFrames, pixel_size |-> 3,
         angle |-> [i \in 0..4 |-> 10 * i - 10],
         position |-> [i \in 0..4 |-> <<i, 5 - i, 7>>]] ]

\* the frames handed to a writer are cast to its element type on storage
Frame(ds, i) == [cplx |-> IsComplexDtype(ds.dtype), px |-> ds.frames[i + 1]]

\* the .mrc file a producer leaves after writing the first n frames of ds
MrcInput(ds, n) ==
    LET RECURSIVE fill(_, _)
        fill(h, i) ==
            IF i >= n THEN h
            ELSE fill(MrcPositionSetItem(
                          MrcAngleSetItem([h EXCEPT !.data[i] = Frame(ds, i)],
                                          i, ds.angle[i]),
                          i, ds.position[i]),
                      i + 1)
    IN  MrcUpdate(fill(MrcFileWriter(<<n, 2, 3>>, ds.pixel_size, ds.dtype).handle, 0))

\* the NeXus file a producer leaves after writing the first n frames of ds
NexusInput(ds, n) ==
    LET RECURSIVE fill(_, _)
        fill(h, i) ==
            IF i >= n THEN h
            ELSE fill(NexusPositionSetItem(
                          [h EXCEPT !.data[i] = Frame(ds, i),
                                    !.rotation_angle[i] = ds.angle[i]],
                          i, ds.position[i]),
                      i + 1)
    IN  fill(NexusWriter(<<n, 2, 3>>, ds.pixel_size, ds.dtype).handle, 0)

InMrc == <<"i","n",".","m","r","c">>
InNexus == <<"i","n",".","N","X","S">>
InImage == <<"i","n",".","p","n","g">>

OutMrc == <<"o",".","M","r","c">>
OutNexus == <<"o",".","h","5">>
OutImage == <<"o","_","%","d",".","p","n","g">>
OutOther == <<"o",".","d","a","t">>

\* the files export may be pointed at: <<name, format, dataset, frames>>
InputFiles ==
    { <<InMrc, "mrc", "real", n>> : n \in FrameCounts }
    \cup { <<InMrc, "mrc", "cplx", MaxFrames - 1>>,
           <<InNexus, "nexus", "tomo", MaxFrames>> }

\* the content of an input file
FileContent(f) ==
    IF f[2] = "mrc" THEN MrcInput(Datasets[f[3]], f[4])
    ELSE NexusInput(Datasets[f[3]], f[4])

Selections ==
    { [select_images |-> None, rotation_range |-> None],
      [select_images |-> Some(<<0, 2, 1>>), rotation_range |-> None],
      [select_images |-> Some(<<0, 3, 1>>), rotation_range |-> None],
      [select_images |-> Some(<<-1, 2, 2>>), rotation_range |-> None],
      [select_images |-> None, rotation_range |-> Some(<<0, 20>>)] }

Rois == { None, Some(<<1, 0, 3, 2>>), Some(<<0, 0, 4, 2>>) }
BadRois == { Some(<<2, 0, 1, 2>>), Some(<<0, 1, 3, 1>>) }

Interlaces == { None, Some(2) }
Rebins == { 1, 2 }

\* --vmin / --vmax are read for image output only
Ranges ==
    { [vmin |-> None, vmax |-> None],
      [vmin |-> Some(0), vmax |-> None],
      [vmin |-> Some(4), vmax |-> None],
      [vmin |-> None, vmax |-> Some(40)],
      [vmin |-> Some(0), vmax |-> Some(40)],
      [vmin |-> Some(4), vmax |-> Some(4)] }

Outputs ==
    { [output |-> o, vmin |-> None, vmax |-> None] : o \in {OutMrc, OutNexus} }
    \cup { [output |-> OutImage, vmin |-> r.vmin, vmax |-> r.vmax] : r \in Ranges }

ArgsOf(f, o, sel, roi, mode, rot, il, rb) ==
    [filename |-> f, output |-> o.output, rot90 |-> rot,
     rotation_range |-> sel.rotation_range, select_images |-> sel.select_images,
     roi |-> roi, complex_mode |-> mode, interlace |-> il, rebin |-> rb,
     vmin |-> o.vmin, vmax |-> o.vmax]

ExportStart ==
    /\ pc = "parse"
    /\ reader = None
    /\ loc = NoLoc
    /\ writer = None
    /\ events = <<>>

ExportInit ==
    /\ ExportStart
    /\ \E f \in InputFiles :
        /\ inputFile = f
        /\ \/ \E o \in Outputs, sel \in Selections, roi \in Rois, mode \in ComplexModes,
                 rot \in BOOLEAN, il \in Interlaces, rb \in Rebins :
                 args = ArgsOf(f[1], o, sel, roi, mode, rot, il, rb)
           \* a malformed region of interest
           \/ \E o \in Outputs, sel \in Selections, roi \in BadRois :
                 args = ArgsOf(f[1], o, sel, roi, "complex", FALSE, None, 1)
           \* an output or an input name no backend takes
           \/ \E sel \in Selections :
                 \/ args = ArgsOf(f[1], [output |-> OutOther, vmin |-> None, vmax |-> None],
                                  sel, None, "complex", FALSE, None, 1)
                 \/ args = ArgsOf(InImage, [output |-> OutMrc, vmin |-> None, vmax |-> None],
                                  sel, None, "complex", FALSE, None, 1)
           \* both selection options, or a range with step 0
           \/ \E o \in Outputs :
                 \/ args = ArgsOf(f[1], o, [select_images |-> Some(<<0, 2, 1>>),
                                            rotation_range |-> Some(<<0, 20>>)],
                                  None, "complex", FALSE, None, 1)
                 \/ args = ArgsOf(f[1], o, [select_images |-> Some(<<0, 2, 0>>),
                                            rotation_range |-> None],
                                  None, "complex", FALSE, None, 1)

ExportIdle ==
    /\ args = None
    /\ inputFile = None
    /\ pc = "idle"
    /\ reader = None
    /\ loc = NoLoc
    /\ writer = None
    /\ events = <<>>


(***************************************************************************)
(* The steps of export                                                     *)
(***************************************************************************)
\* parser.parse_args: --rotation_range and --select_images exclude each
\* other, --complex_mode is one of the choices
ParseAccepts(a) ==
    /\ ~(a.rotation_range # None /\ a.select_images # None)
    /\ a.complex_mode \in ComplexModes

ExportParse ==
    /\ pc = "parse"
    /\ pc' = IF ParseAccepts(args) THEN "open" ELSE "usage"
    /\ UNCHANGED <<args, inputFile, reader, loc, writer, events, dispatchVars, mrcVars, libVars>>

\* reader = amplus.io.open(args.filename)
ExportOpen ==
    /\ pc = "open"
    /\ LET how == from_file(args.filename)
       IN  IF how = "from_mrcfile"
           THEN /\ events' = Append(events, <<"open">>)
                /\ IF MrcFileOk(FileContent(inputFile))
                   THEN reader' = Some(from_mrcfile(FileContent(inputFile))) /\ pc' = "select"
                   ELSE reader' = None /\ pc' = "failed"
           ELSE IF how = "from_nexus"
           THEN /\ events' = Append(events, <<"open">>)
                /\ IF NexusEntryOk(FileContent(inputFile))
                   THEN reader' = Some(from_nexus(FileContent(inputFile))) /\ pc' = "select"
                   ELSE reader' = None /\ pc' = "failed"
           ELSE /\ reader' = None
                /\ events' = events
                /\ pc' = "failed"
    /\ UNCHANGED <<args, inputFile, loc, writer, dispatchVars, mrcVars, libVars>>

\* "Get the shape and indices to read" (twice) and "Interlace the images"
ExportSelect ==
    /\ pc = "select"
    /\ LET rd == reader[1]
           n == rd.shape[1]
           byIndex == IF args.select_images # None
                      THEN PyRange(args.select_images[1])
                      ELSE PyRange(<<n>>)
           selected == IF args.rotation_range # None
                       THEN SelectByAngle(rd.angle, n, args.rotation_range[1])
                       ELSE byIndex
           indices == Interlaced(selected, args.interlace)
       IN  IF args.select_images # None /\ RangeFails(args.select_images[1])
           THEN pc' = "failed" /\ loc' = loc
           ELSE /\ pc' = "roi"
                /\ loc' = [loc EXCEPT !.selected = Some(selected), !.indices = indices]
    /\ UNCHANGED <<args, inputFile, reader, writer, events, dispatchVars, mrcVars, libVars>>

\* "Get the region of interest": the two asserts, or the full frame
ExportRoi ==
    /\ pc = "roi"
    /\ LET rd == reader[1]
           roi == IF args.roi # None THEN args.roi[1]
                  ELSE <<0, 0, rd.shape[3], rd.shape[2]>>
       IN  IF roi[3] > roi[1] /\ roi[4] > roi[2]
           THEN pc' = "new" /\ loc' = [loc EXCEPT !.roi = roi]
           ELSE pc' = "failed" /\ loc' = loc
    /\ UNCHANGED <<args, inputFile, reader, writer, events, dispatchVars, mrcVars, libVars>>

\* the element type asked for when only the mode "square" changes it
ExportDtypeSquareOnly(complex_mode, rd) ==
    IF complex_mode = "square" THEN "float64" ELSE rd.dtype

\* "If squared and dtype is complex then change to float"
ExportDtype(complex_mode, rd) ==
    IF complex_mode # "complex" THEN "float64" ELSE rd.dtype

\* the element type, shape and pixel size of the output, and
\* writer = amplus.io.new(args.output, shape=..., pixel_size=..., dtype=...)
ExportNew ==
    /\ pc = "new"
    /\ LET rd == reader[1]
           dtype == ExportDtype(args.complex_mode, rd)
           shape0 == <<Len(loc.indices), loc.roi[4] - loc.roi[2], loc.roi[3] - loc.roi[1]>>
           shape1 == IF args.rot90 THEN <<shape0[1], shape0[3], shape0[2]>> ELSE shape0
           shape == IF args.rebin # 1
                    THEN <<shape1[1], shape1[2] \div args.rebin, shape1[3] \div args.rebin>>
                    ELSE shape1
           pixel_size == IF args.rebin # 1 THEN rd.pixel_size * args.rebin
                         ELSE rd.pixel_size
           class == new(args.output)
       IN  /\ loc' = [loc EXCEPT !.dtype = dtype, !.shape = shape,
                                 !.pixel_size = pixel_size]
           /\ IF class = "RuntimeError"
              THEN writer' = None /\ events' = events /\ pc' = "failed"
              ELSE /\ events' = Append(events, <<"create">>)
                   /\ writer' = Some(
                        CASE class = "MrcFileWriter" -> MrcFileWriter(shape, pixel_size, dtype)
                          [] class = "NexusWriter" -> NexusWriter(shape, pixel_size, dtype)
                          [] class = "ImageWriter" ->
                                ImageWriter(args.output, shape, None, None))
                   /\ pc' = IF class = "ImageWriter" THEN "scan" ELSE "write"
    /\ UNCHANGED <<args, inputFile, reader, dispatchVars, mrcVars, libVars>>

\* "If converting to images, determine min and max"
ExportScan ==
    /\ pc = "scan"
    /\ LET rd == reader[1]
           w == writer[1]
           scanning == args.vmin = None \/ args.vmax = None
           image(k) == Transform(args.complex_mode, ReadCrop(rd, loc.indices[k], loc.roi))
           min_image == [k \in 1..Len(loc.indices) |-> numpy_min(image(k))]
           max_image == [k \in 1..Len(loc.indices) |-> numpy_max(image(k))]
           scanFails == \/ \E k \in 1..Len(loc.indices) :
                              ~IndexOk(loc.indices[k], rd.shape[1])
                        \/ Len(loc.indices) = 0
           scanned == IF scanning
                      THEN [w EXCEPT !.vmin = Some(NpScalar(MinOf(min_image))),
                                     !.vmax = Some(NpScalar(MaxOf(max_image)))]
                      ELSE w
           withMin == IF Truthy(args.vmin)
                      THEN [scanned EXCEPT !.vmin = Some(PyFloat(args.vmin[1]))]
                      ELSE scanned
           withMax == IF Truthy(args.vmax)
                      THEN [withMin EXCEPT !.vmax = Some(PyFloat(args.vmax[1]))]
                      ELSE withMin
       IN  IF scanning /\ scanFails
           THEN /\ pc' = "failed"
                /\ writer' = writer
                /\ events' = Append(events, <<"scan">>)
           ELSE /\ pc' = "write"
                /\ writer' = Some(withMax)
                /\ events' = IF scanning THEN Append(events, <<"scan">>) ELSE events
    /\ UNCHANGED <<args, inputFile, reader, loc, dispatchVars, mrcVars, libVars>>

\* writer.data[j, :, :] = image : whether the writer raises
DataWriteFails(w, img) ==
    IF w.class = "ImageWriter"
    THEN ~ImageShapeOk(w, img) \/ ImageScaleFails(w, img)
    ELSE ~Broadcastable(img, w.handle.shape[2], w.handle.shape[3])

\* writer.data[j, :, :] = image; writer.position[j] = position, with the
\* assignment of the angle left out
WriteFrameNoAngle(w, j, img, angle, position) ==
    CASE w.class = "MrcFileWriter" ->
            [w EXCEPT !.handle =
                MrcPositionSetItem(
                    [w.handle EXCEPT !.data[j] =
                        StoreAs(img, w.handle.shape[2], w.handle.shape[3],
                                IsComplexDtype(w.handle.dtype))],
                    j, position)]
      [] w.class = "NexusWriter" ->
            [w EXCEPT !.handle =
                NexusPositionSetItem(
                    [w.handle EXCEPT
                        !.data[j] = StoreAs(img, w.handle.shape[2], w.handle.shape[3],
                                            IsComplexDtype(w.handle.dtype))],
                    j, position)]
      [] w.class = "ImageWriter" ->
            [ImageSetItem(w, j, img) EXCEPT !.position[j] = position]

\* writer.data[j, :, :] = image; writer.angle[j] = angle; writer.position[j] = position
WriteFrame(w, j, img, angle, position) ==
    CASE w.class = "MrcFileWriter" ->
            [w EXCEPT !.handle =
                MrcPositionSetItem(
                    MrcAngleSetItem(
                        [w.handle EXCEPT !.data[j] =
                            StoreAs(img, w.handle.shape[2], w.handle.shape[3],
                                    IsComplexDtype(w.handle.dtype))],
                        j, angle),
                    j, position)]
      [] w.class = "NexusWriter" ->
            [w EXCEPT !.handle =
                NexusPositionSetItem(
                    NexusWriteThrough(
                        NexusWriteThrough(
                            w.handle, "data", "data", j,
                            StoreAs(img, w.handle.shape[2], w.handle.shape[3],
                                    IsComplexDtype(w.handle.dtype))),
                        "data", "rotation_angle", j, angle),
                    j, position)]
      [] w.class = "ImageWriter" ->
            [ImageSetItem(w, j, img) EXCEPT !.angle[j] = angle, !.position[j] = position]

\* one pass of "Write the data": frame indices[j] is read, transformed and written
ExportWrite ==
    /\ pc = "write"
    /\ loc.j < Len(loc.indices)
    /\ LET rd == reader[1]
           w == writer[1]
           j == loc.j
           i == loc.indices[j + 1]
       IN  IF ~IndexOk(i, rd.shape[1])
           THEN pc' = "failed" /\ loc' = loc /\ writer' = writer /\ events' = events
           ELSE LET cropped == ReadCrop(rd, i, loc.roi)
                    angle == rd.angle[PyIndex(i, rd.shape[1])]
                    position == SwapPosition(args, rd.position[PyIndex(i, rd.shape[1])])
                IN  IF PipelineFails(args, cropped)
                    THEN /\ pc' = "failed"
                         /\ loc' = loc /\ writer' = writer
                         /\ events' = Append(events, <<"read", i>>)
                    ELSE IF DataWriteFails(w, Pipeline(args, cropped))
                    THEN /\ pc' = "failed"
                         /\ loc' = loc /\ writer' = writer
                         /\ events' = events \o << <<"read", i>>, <<"write_error", j>> >>
                    ELSE /\ pc' = "write"
                         /\ loc' = [loc EXCEPT !.j = j + 1,
                                               !.handed = Append(@, Pipeline(args, cropped))]
                         /\ writer' = Some(WriteFrame(w, j, Pipeline(args, cropped),
                                                      angle, position))
                         /\ events' = events \o << <<"read", i>>, <<"write", j>> >>
    /\ UNCHANGED <<args, inputFile, reader, dispatchVars, mrcVars, libVars>>

\* Writer.update / MrcFileWriter.update
Update(w) ==
    IF w.class = "MrcFileWriter" THEN [w EXCEPT !.handle = MrcUpdate(@)] ELSE w

\* "Update the writer" taken out of its place after the loop: the update is
\* issued while frames may still be waiting
ExportUpdateEarly ==
    /\ pc = "write"
    /\ writer' = Some(Update(writer[1]))
    /\ events' = Append(events, <<"update">>)
    /\ pc' = "done"
    /\ UNCHANGED <<args, inputFile, reader, loc, dispatchVars, mrcVars, libVars>>

\* "Update the writer", once the loop is over
ExportUpdate ==
    /\ pc = "write"
    /\ loc.j = Len(loc.indices)
    /\ writer' = Some(Update(writer[1]))
    /\ events' = Append(events, <<"update">>)
    /\ pc' = "done"
    /\ UNCHANGED <<args, inputFile, reader, loc, dispatchVars, mrcVars, libVars>>

ExportNext ==
    \/ ExportParse
    \/ ExportOpen
    \/ ExportSelect
    \/ ExportRoi
    \/ ExportNew
    \/ ExportScan
    \/ ExportWrite
    \/ ExportUpdate

(***************************************************************************)
(* Calls of single functions, on inputs drawn from bounded sets            *)
(***************************************************************************)
LibIdle == call = None /\ result = None

\* what every call leaves alone
LibFrame == UNCHANGED <<call, dispatchVars, mrcVars, exportVars>>

MaxLen == 4

\* the index lists the selection stage can leave: a range(start, stop, step),
\* or the frames an angle range keeps, in increasing order
IndexLists ==
    { PyRange(<<a, b, c>>) : a \in -1..MaxLen, b \in -1..MaxLen, c \in {-2, -1, 1, 2} }
    \cup UNION { { SelectByAngle(angle, n, <<1, 2>>) : angle \in [0..(n - 1) -> {0, 1}] }
                : n \in 0..MaxLen }

InterlaceFactors == { None } \cup { Some(k) : k \in -1..(MaxLen + 2) }

InterlaceInit ==
    /\ result = None
    /\ \E indices \in IndexLists, k \in InterlaceFactors :
          call = [fn |-> "interlace", indices |-> indices, interlace |-> k]

\* lines 370-377 of export on one index list
CallInterlace ==
    /\ call.fn = "interlace"
    /\ result = None
    /\ result' = Some(Interlaced(call.indices, call.interlace))
    /\ LibFrame

MaxDim == 6

\* a real frame of height h and width w whose pixels are all different
GridImage(h, w) ==
    [cplx |-> FALSE, px |-> [r \in 1..h |-> [c \in 1..w |-> <<10 * r + c, 0>>]]]

\* frames of every height and width up to MaxDim, rebin factors from 2 to the
\* smaller of the two, and two pixel sizes
RebinInit ==
    /\ result = None
    /\ \E h \in 1..MaxDim, w \in 1..MaxDim, ps \in {1, 3} :
          \E r \in 2..Min2(h, w) :
             call = [fn |-> "rebin", image |-> GridImage(h, w), rebin |-> r, pixel_size |-> ps]

\* the "Rebin" step of the shape (lines 400-405) and "Rebin the array" of the
\* write loop (lines 472-475) on one frame
CallRebin ==
    /\ call.fn = "rebin"
    /\ result = None
    /\ LET image == call.image
           shape == <<Height(image) \div call.rebin, Width(image) \div call.rebin>>
           new_shape == <<Height(image) \div call.rebin, Width(image) \div call.rebin>>
       IN  result' = Some([shape |-> shape,
                           pixel_size |-> call.pixel_size * call.rebin,
                           image |-> rebin(image, new_shape)])
    /\ LibFrame

\* the element types a caller may name
DtypeNames ==
    {"bool", "int8", "int16", "int32", "int64", "uint8", "uint16", "uint32", "uint64",
     "float16", "float32", "float64", "complex64", "complex128"}

MrcNewInit ==
    /\ result = None
    /\ \E dtype \in DtypeNames, n \in FrameCounts, ps \in {1, 3} :
          call = [fn |-> "MrcFileWriter", shape |-> <<n, 2, 3>>, pixel_size |-> ps,
                  dtype |-> dtype]

\* MrcFileWriter.__init__ up to the creation of the file: the element type
\* after the narrowing, and the writer unless the format has no mode for it
MrcNewOutcome(shape, pixel_size, dtype) ==
    [dtype |-> NarrowDtype(dtype),
     writer |-> IF NarrowDtype(dtype) \in MrcModes
                THEN Some(MrcFileWriter(shape, pixel_size, dtype))
                ELSE None]

\* MrcFileWriter(filename, shape, pixel_size, dtype)
CallMrcNew ==
    /\ call.fn = "MrcFileWriter"
    /\ result = None
    /\ result' = Some(<<MrcNewOutcome(call.shape, call.pixel_size, call.dtype)>>)
    /\ LibFrame

\* a second writer asked for with the element type the first one came out with
CallMrcNewAgain ==
    /\ call.fn = "MrcFileWriter"
    /\ result # None
    /\ Len(result[1]) = 1
    /\ result' = Some(Append(result[1],
                             MrcNewOutcome(call.shape, call.pixel_size, result[1][1].dtype)))
    /\ LibFrame

\* the extended-header layouts a Binary-Volume file may declare
ExtTypes == {"FEI1", "FEI2", "SERI", ""}

\* what a file holds as extended header: the per-frame records the writer
\* left, the same with the last record missing, an uninterpreted byte block
\* of the same size, or nothing
HeaderKinds == {"written", "short", "bytes", "absent"}

\* Binary-Volume files on disk: a stack of n frames as the writer left it,
\* with the declared layout and the extended header varied
MrcFiles ==
    { LET h == MrcInput(Datasets[d], n)
      IN  [h EXCEPT
             !.exttyp = e,
             !.extended_header_dtype = IF k \in {"written", "short"}
                                       THEN "FEI_EXTENDED_HEADER_DTYPE" ELSE "V1",
             !.extended_header = IF k = "short"
                                 THEN [i \in 0..(n - 2) |-> h.extended_header[i]]
                                 ELSE IF k = "absent" THEN <<>>
                                 ELSE h.extended_header]
      : d \in {"real", "cplx", "tomo"}, n \in FrameCounts, e \in ExtTypes, k \in HeaderKinds }

MrcOpenInit ==
    /\ result = None
    /\ \E h \in MrcFiles : call = [fn |-> "from_mrcfile", file |-> h]

\* Reader.from_mrcfile(filename)
CallFromMrcfile ==
    /\ call.fn = "from_mrcfile"
    /\ result = None
    /\ result' = Some(IF MrcFileOk(call.file)
                      THEN [raised |-> None, reader |-> Some(from_mrcfile(call.file))]
                      ELSE [raised |-> Some("AssertionError"), reader |-> None])
    /\ LibFrame

\* the NX_class attribute ("": no such attribute) and the definition
\* dataset (None: no such dataset) an entry may hold; a definition read as
\* bytes is decoded to its text
EntryClasses == { "NXentry", "NXdata", "" }
EntryDefinitions == { Some("NXtomo"), Some("nxtomo"), Some("NXmx"), Some(""), None }

\* Structured-Container files on disk: a stack of n frames as the writer
\* left it, with the class and the definition of the entry varied
NexusFiles ==
    { [NexusInput(Datasets[d], n) EXCEPT
          !.NX_class = c,
          !.definition = t]
      : d \in {"real", "cplx", "tomo"}, n \in FrameCounts,
        c \in EntryClasses, t \in EntryDefinitions }

NexusOpenInit ==
    /\ result = None
    /\ \E h \in NexusFiles : call = [fn |-> "from_nexus", file |-> h]

\* Reader.from_nexus(filename): a missing attribute or dataset is a KeyError,
\* a wrong one an AssertionError
CallFromNexus ==
    /\ call.fn = "from_nexus"
    /\ result = None
    /\ result' = Some(IF NexusEntryOk(call.file)
                      THEN [raised |-> None, reader |-> Some(from_nexus(call.file))]
                      ELSE [raised |->
                               Some(IF call.file.NX_class = "" THEN "KeyError"
                                    ELSE IF call.file.NX_class # "NXentry" THEN "AssertionError"
                                    ELSE IF call.file.definition = None THEN "KeyError"
                                    ELSE "AssertionError"),
                            reader |-> None])
    /\ LibFrame

\* the values an angle or a position coordinate takes, and the arrays of
\* them with up to MaxFrames entries
MetaValues == {0, 1, 3}
MetaArrays ==
    UNION { [0..(k - 1) -> MetaValues] : k \in 0..MaxFrames }

\* the arguments of a construction: n frames, an angle array and a position
\* array whose rows are (2, y, 5)
ReaderInit ==
    /\ result = None
    /\ \E n \in 0..MaxFrames, a \in MetaArrays, y \in MetaArrays :
          call = [fn |-> "Reader",
                  data |-> [i \in 0..(n - 1) |-> ZeroImage(2, 3, FALSE)],
                  angle |-> a,
                  position |-> [i \in DOMAIN y |-> <<2, y[i], 5>>]]

\* Reader(handle, data, angle, position, pixel_size)
CallReader ==
    /\ call.fn = "Reader"
    /\ result = None
    /\ result' =
          Some(IF ReaderDimsOk(call.data, call.angle, call.position)
               THEN [raised |-> None,
                     reader |-> Some(Reader("mrc", call.data, call.angle, call.position, 1,
                                            <<ArrayLen(call.data), 2, 3>>, "float32")),
                     step_angle |-> None, step_position |-> None, num_images |-> None]
               ELSE [raised |-> Some("AssertionError"), reader |-> None,
                     step_angle |-> None, step_position |-> None, num_images |-> None])
    /\ LibFrame

\* reader.num_images
CallNumImages ==
    /\ call.fn = "Reader"
    /\ result # None
    /\ result[1].reader # None
    /\ result[1].num_images = None
    /\ result' = Some([result[1] EXCEPT !.num_images = Some(num_images(result[1].reader[1]))])
    /\ LibFrame

\* reader.step_angle
CallStepAngle ==
    /\ call.fn = "Reader"
    /\ result # None
    /\ result[1].reader # None
    /\ result[1].step_angle = None
    /\ result' = Some([result[1] EXCEPT !.step_angle = Some(step_angle(result[1].reader[1].angle))])
    /\ LibFrame

\* reader.step_position
CallStepPosition ==
    /\ call.fn = "Reader"
    /\ result # None
    /\ result[1].reader # None
    /\ result[1].step_position = None
    /\ result' = Some([result[1] EXCEPT
                          !.step_position = Some(step_position(result[1].reader[1].position))])
    /\ LibFrame

\* the value of a property read, or the error the read raised
Returned(v) == [raised |-> None, value |-> Some(v)]
Raised(e) == [raised |-> Some(e), value |-> None]

\* the members of the root of the file NexusWriter creates
NexusRootMembers == {"entry"}

\* the attributes ImageWriter.DataProxy.__init__ sets
DataProxyAttributes == {"template", "shape", "vmin", "vmax"}

\* Writer.shape: self._data.shape
WriterShape(w) ==
    IF w.class = "ImageWriter"
    THEN (IF "shape" \in DataProxyAttributes THEN {Returned(w.shape)}
          ELSE {Raised("AttributeError")})
    ELSE {Returned(w.handle.shape)}

\* Writer.dtype: self._data.dtype
WriterDtype(w) ==
    IF w.class = "ImageWriter"
    THEN (IF "dtype" \in DataProxyAttributes THEN {Returned("uint8")}
          ELSE {Raised("AttributeError")})
    ELSE {Returned(w.handle.dtype)}

\* Writer.pixel_size and its overrides: MrcFileWriter indexes the voxel size
\* record of mrcfile with 0, which gives its first field or an IndexError
\* depending on the library; NexusWriter looks "instrument" up in the root of
\* the file; ImageWriter returns its _pixel_size
WriterPixelSize(w) ==
    CASE w.class = "MrcFileWriter" ->
            {Returned(w.handle.voxel_size), Raised("IndexError")}
      [] w.class = "NexusWriter" ->
            (IF "instrument" \in NexusRootMembers
             THEN {Returned(w.handle.x_pixel_size[0])}
             ELSE {Raised("KeyError")})
      [] w.class = "ImageWriter" -> {Returned(w.pixel_size)}

\* the arguments of io.new for the three kinds of output
WriterInit ==
    /\ result = None
    /\ \E o \in {OutMrc, OutNexus, OutImage}, n \in FrameCounts, ps \in {1, 3},
          dtype \in {"float32", "float64", "int32", "complex64"} :
          call = [fn |-> "new", filename |-> o, shape |-> <<n, 2, 3>>,
                  pixel_size |-> ps, dtype |-> dtype]

\* io.new(filename, shape, pixel_size, dtype)
CallNew ==
    /\ call.fn = "new"
    /\ result = None
    /\ result' =
          Some([writer |->
                   CASE new(call.filename) = "MrcFileWriter" ->
                           MrcFileWriter(call.shape, call.pixel_size, call.dtype)
                     [] new(call.filename) = "NexusWriter" ->
                           NexusWriter(call.shape, call.pixel_size, call.dtype)
                     [] new(call.filename) = "ImageWriter" ->
                           ImageWriter(call.filename, call.shape, None, None),
                shape |-> None, dtype |-> None, pixel_size |-> None])
    /\ LibFrame

\* writer.shape
CallWriterShape ==
    /\ call.fn = "new"
    /\ result # None
    /\ result[1].shape = None
    /\ \E out \in WriterShape(result[1].writer) :
          result' = Some([result[1] EXCEPT !.shape = Some(out)])
    /\ LibFrame

\* writer.dtype
CallWriterDtype ==
    /\ call.fn = "new"
    /\ result # None
    /\ result[1].dtype = None
    /\ \E out \in WriterDtype(result[1].writer) :
          result' = Some([result[1] EXCEPT !.dtype = Some(out)])
    /\ LibFrame

\* writer.pixel_size
CallWriterPixelSize ==
    /\ call.fn = "new"
    /\ result # None
    /\ result[1].pixel_size = None
    /\ \E out \in WriterPixelSize(result[1].writer) :
          result' = Some([result[1] EXCEPT !.pixel_size = Some(out)])
    /\ LibFrame

\* frames handed to the image writer: real ones with the values 0..10, all
\* 5, and -2..12, and a complex one with the squared magnitudes 1, 4, 9
ImageFrames ==
    { [cplx |-> FALSE, px |-> << <<R(0), R(4), R(10)>> >>],
      [cplx |-> FALSE, px |-> << <<R(5), R(5), R(5)>> >>],
      [cplx |-> FALSE, px |-> << <<R(-2), R(3), R(12)>> >>],
      [cplx |-> TRUE, px |-> << <<I(1), R(-2), R(3)>> >>] }

\* the frames written to one writer, in order
FrameSequences ==
    { <<a>> : a \in ImageFrames } \cup { <<a, b>> : a \in ImageFrames, b \in ImageFrames }

\* the arguments of the writer and the frames it is given
ImageInit ==
    /\ result = None
    /\ \E lo \in {None, Some(PyFloat(0)), Some(PyFloat(4))},
          hi \in {None, Some(PyFloat(4)), Some(PyFloat(10))},
          fs \in FrameSequences, b \in Builds :
          call = [fn |-> "ImageWriter", vmin |-> lo, vmax |-> hi, frames |-> fs,
                  build |-> b]

\* ImageWriter(template, shape, vmin, vmax)
CallImageNew ==
    /\ call.fn = "ImageWriter"
    /\ result = None
    /\ result' = Some([writer |-> ImageWriter(OutImage, <<Len(call.frames), 1, 3>>,
                                              call.vmin, call.vmax),
                       raised |-> None,
                       saved |-> << >>])
    /\ LibFrame

\* writer.data[j, :, :] = frame, for the next frame of the call
CallImageWrite ==
    /\ call.fn = "ImageWriter"
    /\ result # None
    /\ result[1].raised = None
    /\ Len(result[1].saved) < Len(call.frames)
    /\ LET w == result[1].writer
           j == Len(result[1].saved)
           img == call.frames[j + 1]
       IN  result' =
              Some(IF ~ImageShapeOk(w, img)
                   THEN [result[1] EXCEPT !.raised = Some("AssertionError")]
                   ELSE IF ImageScaleFails(w, img)
                   THEN [result[1] EXCEPT
                            !.raised = Some("ZeroDivisionError"),
                            !.writer = [w EXCEPT
                                           !.vmin = IF img.cplx THEN None ELSE w.vmin,
                                           !.vmax = IF img.cplx THEN None ELSE w.vmax]]
                   ELSE [result[1] EXCEPT
                            !.writer = ImageSetItem(w, j, img),
                            !.saved = Append(@, SavedImage(ImageSetItem(w, j, img).files[j + 1],
                                                           call.build))])
    /\ LibFrame

\* the number of writes made on one file
MaxWrites == 2

\* the arguments of NexusWriter
NexusWriteInit ==
    /\ result = None
    /\ \E n \in FrameCounts, ps \in {1, 3} :
          call = [fn |-> "NexusWriter", shape |-> <<n, 1, 2>>, pixel_size |-> ps,
                  dtype |-> "float32"]

\* NexusWriter(filename, shape, pixel_size, dtype)
CallNexusNew ==
    /\ call.fn = "NexusWriter"
    /\ result = None
    /\ result' = Some([handle |-> NexusWriter(call.shape, call.pixel_size, call.dtype).handle,
                       writes |-> << >>])
    /\ LibFrame

\* writer.data[j, :, :] = frame
CallNexusWriteData ==
    /\ call.fn = "NexusWriter"
    /\ result # None
    /\ Len(result[1].writes) < MaxWrites
    /\ \E j \in 0..(call.shape[1] - 1), v \in {4, 9} :
          LET img == [cplx |-> FALSE, px |-> << <<R(v), R(v + 1)>> >>]
          IN  result' = Some([handle |-> NexusWriteThrough(result[1].handle, "data", "data",
                                                          j, img),
                              writes |-> Append(result[1].writes, <<"data", j, img>>)])
    /\ LibFrame

\* writer.angle[j] = angle
CallNexusWriteAngle ==
    /\ call.fn = "NexusWriter"
    /\ result # None
    /\ Len(result[1].writes) < MaxWrites
    /\ \E j \in 0..(call.shape[1] - 1), a \in {10, 20} :
          result' = Some([handle |-> NexusWriteThrough(result[1].handle, "data",
                                                      "rotation_angle", j, a),
                          writes |-> Append(result[1].writes, <<"rotation_angle", j, a>>)])
    /\ LibFrame

\* writer.position[j] = (x, y, z)
CallNexusWritePosition ==
    /\ call.fn = "NexusWriter"
    /\ result # None
    /\ Len(result[1].writes) < MaxWrites
    /\ \E j \in 0..(call.shape[1] - 1), p \in {<<1, 2, 3>>, <<6, 5, 4>>} :
          result' = Some([handle |-> NexusPositionSetItem(result[1].handle, j, p),
                          writes |-> Append(result[1].writes, <<"position", j, p>>)])
    /\ LibFrame

\* writer.shift[j] = (x, y)
CallNexusWriteShift ==
    /\ call.fn = "NexusWriter"
    /\ result # None
    /\ Len(result[1].writes) < MaxWrites
    /\ \E j \in 0..(call.shape[1] - 1), d \in {<<7, 8>>} :
          result' = Some([handle |-> NexusShiftSetItem(result[1].handle, j, d),
                          writes |-> Append(result[1].writes, <<"shift", j, d>>)])
    /\ LibFrame


(***************************************************************************)
(* Specifications                                                          *)
(***************************************************************************)
\* the dispatcher alone: io.new and io.open on a filename
InitDispatch == DispatchInit /\ MrcIdle /\ ExportIdle /\ LibIdle
SpecDispatch == InitDispatch /\ [][DispatchNext]_vars

\* a producer writing metadata to a .mrc file, and a consumer reading it back
InitRoundTrip == MrcInit /\ DispatchIdle /\ ExportIdle /\ LibIdle
SpecRoundTrip == InitRoundTrip /\ [][MrcNext]_vars

\* one run of the export command
Init == ExportInit /\ DispatchIdle /\ MrcIdle /\ LibIdle
Next == ExportNext
Spec == Init /\ [][Next]_vars

\* the interlacing stage alone
InitInterlace == InterlaceInit /\ DispatchIdle /\ MrcIdle /\ ExportIdle
NextInterlace == CallInterlace
SpecInterlace == InitInterlace /\ [][NextInterlace]_vars

\* the rebinning of the shape and of one frame
InitRebin == RebinInit /\ DispatchIdle /\ MrcIdle /\ ExportIdle
NextRebin == CallRebin
SpecRebin == InitRebin /\ [][NextRebin]_vars

\* the creation of Binary-Volume writers for every element type
InitMrcNew == MrcNewInit /\ DispatchIdle /\ MrcIdle /\ ExportIdle
NextMrcNew == CallMrcNew \/ CallMrcNewAgain
SpecMrcNew == InitMrcNew /\ [][NextMrcNew]_vars

\* the opening of Binary-Volume files with any declared header layout
InitMrcOpen == MrcOpenInit /\ DispatchIdle /\ MrcIdle /\ ExportIdle
NextMrcOpen == CallFromMrcfile
SpecMrcOpen == InitMrcOpen /\ [][NextMrcOpen]_vars

\* the opening of Structured-Container files with any entry
InitNexusOpen == NexusOpenInit /\ DispatchIdle /\ MrcIdle /\ ExportIdle
NextNexusOpen == CallFromNexus
SpecNexusOpen == InitNexusOpen /\ [][NextNexusOpen]_vars

\* the construction of a Reader and its derived properties
InitReader == ReaderInit /\ DispatchIdle /\ MrcIdle /\ ExportIdle
NextReader ==
    \/ CallReader
    \/ CallNumImages
    \/ CallStepAngle
    \/ CallStepPosition
SpecReader == InitReader /\ [][NextReader]_vars

\* the creation of a writer and the reads of its properties
InitWriter == WriterInit /\ DispatchIdle /\ MrcIdle /\ ExportIdle
NextWriter ==
    \/ CallNew
    \/ CallWriterShape
    \/ CallWriterDtype
    \/ CallWriterPixelSize
SpecWriter == InitWriter /\ [][NextWriter]_vars

\* frames written to an image writer one after the other
InitImage == ImageInit /\ DispatchIdle /\ MrcIdle /\ ExportIdle
NextImage ==
    \/ CallImageNew
    \/ CallImageWrite
SpecImage == InitImage /\ [][NextImage]_vars

\* writes on a Structured-Container file through the writer
InitNexusWrite == NexusWriteInit /\ DispatchIdle /\ MrcIdle /\ ExportIdle
NextNexusWrite ==
    \/ CallNexusNew
    \/ CallNexusWriteData
    \/ CallNexusWriteAngle
    \/ CallNexusWritePosition
    \/ CallNexusWriteShift
SpecNexusWrite == InitNexusWrite /\ [][NextNexusWrite]_vars


(***************************************************************************)
(* Claims                                                                  *)
(***************************************************************************)
ContainerWords == {"h5", "hdf5", "nx", "nxs", "nexus"}
ImageWords == {"png", "jpg", "jpeg", "tif", "tiff"}

\* C1: the dispatcher routes on the lower-cased extension alone: .mrc to the
\* Binary-Volume writer and reader, .h5/.hdf5/.nx/.nxs/.nexus to the
\* Structured-Container writer and reader, .png/.jpg/.jpeg/.tif/.tiff to the
\* Image-Sequence writer and to no reader; anything else is an error; the
\* letter case of the extension makes no difference.
C1_RoutingByExtension ==
    /\ created # None =>
        created[1] = (IF fnExt = "mrc" THEN "MrcFileWriter"
                      ELSE IF fnExt \in ContainerWords THEN "NexusWriter"
                      ELSE IF fnExt \in ImageWords THEN "ImageWriter"
                      ELSE "RuntimeError")
    /\ opened # None =>
        opened[1] = (IF fnExt = "mrc" THEN "from_mrcfile"
                     ELSE IF fnExt \in ContainerWords THEN "from_nexus"
                     ELSE "RuntimeError")

\* C1 witness: an upper-case .TIFF path got the image writer and no reader
C1_Witness ==
    /\ fnExt = "tiff"
    /\ filename[Len(filename)] = "F"
    /\ created = Some("ImageWriter")
    /\ opened = Some("RuntimeError")

\* C2: a path with the extension nxtomo is routed to the
\* Structured-Container backend by io.new and by io.open.
C2_NxtomoIsContainer ==
    fnExt = "nxtomo" =>
        /\ created # None => created[1] = "NexusWriter"
        /\ opened # None => opened[1] = "from_nexus"

\* C3: what Reader.from_mrcfile returns after any sequence of angle and
\* position writes: the shape of the writer, for every frame the last angle
\* written and the last position written with Z replaced by 0, and zeros for
\* a frame never written; so a write to one frame changes no other frame.
C3_MrcRoundTrip ==
    mrcReader # None =>
        LET r == mrcReader[1]
        IN  /\ r.shape = wrote.shape
            /\ DOMAIN r.angle = DOMAIN wrote.angle
            /\ DOMAIN r.position = DOMAIN wrote.position
            /\ \A i \in DOMAIN wrote.angle :
                r.angle[i] = (IF wrote.angle[i] = None THEN 0 ELSE wrote.angle[i][1])
            /\ \A i \in DOMAIN wrote.position :
                r.position[i] = (IF wrote.position[i] = None THEN <<0, 0, 0>>
                                 ELSE <<wrote.position[i][1][1], wrote.position[i][1][2], 0>>)

\* C3 witness: every frame of a stack of two or more was written, with
\* different positions and a Z that is not 0, and the file was read back
C3_Witness ==
    /\ mrcReader # None
    /\ Cardinality(DOMAIN wrote.angle) >= 2
    /\ \A i \in DOMAIN wrote.angle : wrote.angle[i] # None /\ wrote.position[i] # None
    /\ wrote.position[0] # wrote.position[1]
    /\ wrote.position[1][1][3] # 0

\* C4: every frame handed to the writer is the cropped input frame, rotated
\* by 90 degrees if asked, then passed through the complex-mode transform,
\* then rebinned: the rotation comes before the transform.
C4_CropRotateTransformRebin ==
    \A k \in 1..Len(loc.handed) :
        LET rd == reader[1]
            frame == rd.data[PyIndex(loc.indices[k], rd.shape[1])]
            cropped == Crop(frame, loc.roi[1], loc.roi[2], loc.roi[3], loc.roi[4])
            rotated == IF args.rot90 THEN rot90(cropped) ELSE cropped
            transformed == Transform(args.complex_mode, rotated)
            rebinned == IF args.rebin # 1
                        THEN rebin(transformed, <<Height(transformed) \div args.rebin,
                                                  Width(transformed) \div args.rebin>>)
                        ELSE transformed
        IN  loc.handed[k] = rebinned

\* C4 witness: a finished export with --rot90 and phase unwrapping whose first
\* frame is not what transforming before rotating would have given
C4_Witness ==
    /\ pc = "done"
    /\ args.rot90
    /\ args.complex_mode = "phase_unwrap"
    /\ Len(loc.handed) >= 1
    /\ loc.handed[1] # PipelineTransformFirst(args, ReadCrop(reader[1], loc.indices[1], loc.roi))

\* C4 as stated: every frame handed to the writer is the cropped input frame
\* passed through the complex-mode transform first, then rotated, then rebinned.
C4_TransformBeforeRotation ==
    \A k \in 1..Len(loc.handed) :
        loc.handed[k] = PipelineTransformFirst(args, ReadCrop(reader[1], loc.indices[k], loc.roi))

\* the places of an event in the trace of the run
EventsAt(e) == { k \in 1..Len(events) : events[k] = e }

\* C5: update is called at most once; when it has been called it is the last
\* thing the run did, every selected frame was written before it (data,
\* angle and position in one step) and the run is complete; a complete run
\* has called it, and the statistics of a Binary-Volume output are those of
\* the frames written; a run that failed has not called it.
C5_UpdateOnceAfterAllWrites ==
    /\ Cardinality(EventsAt(<<"update">>)) <= 1
    /\ \A u \in EventsAt(<<"update">>) :
          /\ u = Len(events)
          /\ pc = "done"
          /\ \A j \in 0..(Len(loc.indices) - 1) :
                \E k \in 1..(u - 1) : events[k] = <<"write", j>>
    /\ pc = "done" =>
          /\ EventsAt(<<"update">>) # {}
          /\ writer[1].class = "MrcFileWriter" =>
                writer[1].handle.stats =
                    VolumeStats(writer[1].handle.data, Len(loc.indices))
    /\ pc = "failed" => EventsAt(<<"update">>) = {}
    /\ (\E k \in 1..Len(events) : events[k][1] = "write_error") =>
          pc = "failed"

\* C5 witness: a complete run that wrote three frames and then updated
C5_Witness ==
    /\ pc = "done"
    /\ Len(loc.indices) = 3
    /\ EventsAt(<<"write", 2>>) # {}
    /\ events[Len(events)] = <<"update">>

\* C6: when an export is rejected for a region of interest with x1 <= x0 or
\* y1 <= y0, the input file has not been opened and the output file has not
\* been created.
C6_RoiRejectedBeforeIO ==
    (/\ pc = "failed"
     /\ args.roi # None
     /\ (args.roi[1][3] <= args.roi[1][1] \/ args.roi[1][4] <= args.roi[1][2]))
    => /\ EventsAt(<<"open">>) = {}
       /\ EventsAt(<<"create">>) = {}
       /\ reader = None
       /\ writer = None

\* the values of all selected frames after cropping and the complex-mode
\* transform
ScannedValues ==
    UNION { LET image == Transform(args.complex_mode,
                                   ReadCrop(reader[1], loc.indices[k], loc.roi))
            IN  { image.px[r][c] : r \in 1..Height(image), c \in 1..Width(image) }
            : k \in 1..Len(loc.indices) }

\* the smallest and the largest value of a non-empty set of values
Smallest(S) == CHOOSE v \in S : \A u \in S : PixLeq(v, u)
Largest(S) == CHOOSE v \in S : \A u \in S : PixLeq(u, v)

\* C7: in an export to image files of real-valued frames, every file is
\* rescaled with the vmin (vmax) the caller supplied, whatever its value and
\* whether or not the other endpoint was supplied; an endpoint that was not
\* supplied is the global value of the scan.
C7_SuppliedEndpointUsed ==
    (writer # None /\ writer[1].class = "ImageWriter" /\ writer[1].files # <<>>) =>
        LET vmin == IF args.vmin # None THEN args.vmin[1] ELSE Smallest(ScannedValues)[1]
            vmax == IF args.vmax # None THEN args.vmax[1] ELSE Largest(ScannedValues)[1]
        IN  \A j \in DOMAIN writer[1].files :
                ~loc.handed[j].cplx =>
                    /\ writer[1].files[j].vmin = vmin
                    /\ writer[1].files[j].vmax = vmax

\* the frames the writer receives are real-valued: the input is real or the
\* complex mode is not "complex"
RealOutput == ~IsComplexDtype(reader[1].dtype) \/ args.complex_mode # "complex"

\* C8: in an export of real-valued frames to image files without --vmin and
\* --vmax, from the first write on the vmin and vmax of the writer are the
\* smallest and the largest value of all selected, cropped and transformed
\* frames, and every file is rescaled with these two values.
C8_GlobalRangeRealFrames ==
    (/\ writer # None
     /\ writer[1].class = "ImageWriter"
     /\ args.vmin = None /\ args.vmax = None
     /\ pc \in {"write", "done"}
     /\ RealOutput)
    => LET vmin == Smallest(ScannedValues)
           vmax == Largest(ScannedValues)
       IN  /\ writer[1].vmin = Some(NpScalar(vmin))
           /\ writer[1].vmax = Some(NpScalar(vmax))
           /\ \A j \in DOMAIN writer[1].files :
                 /\ writer[1].files[j].vmin = vmin[1]
                 /\ writer[1].files[j].vmax = vmax[1]

\* C8 witness: two real frames with the value ranges {0,100} and {5,50} were
\* both written with vmin = 0 and vmax = 100
C8_Witness ==
    /\ pc = "done"
    /\ writer[1].class = "ImageWriter"
    /\ args.vmin = None /\ args.vmax = None
    /\ Len(loc.handed) = 2
    /\ numpy_min(loc.handed[1]) = R(0) /\ numpy_max(loc.handed[1]) = R(100)
    /\ numpy_min(loc.handed[2]) = R(5) /\ numpy_max(loc.handed[2]) = R(50)
    /\ \A j \in {1, 2} : writer[1].files[j].vmin = 0 /\ writer[1].files[j].vmax = 100

\* C8 as stated: in every export to image files without --vmin and --vmax,
\* complex-valued frames included, every file is rescaled with the smallest
\* and the largest value of all selected, cropped and transformed frames.
C8_GlobalRangeAllFrames ==
    (/\ writer # None
     /\ writer[1].class = "ImageWriter"
     /\ args.vmin = None /\ args.vmax = None
     /\ writer[1].files # <<>>)
    => LET vmin == Smallest(ScannedValues)
           vmax == Largest(ScannedValues)
       IN  \A j \in DOMAIN writer[1].files :
              /\ writer[1].files[j].vmin = vmin[1]
              /\ writer[1].files[j].vmax = vmax[1]

\* what the writer holds for output frame j: the number of frames, the
\* angle and the position (the Binary-Volume header has no Z)
OutFrames(w) == IF w.class = "ImageWriter" THEN w.shape[1] ELSE w.handle.shape[1]

OutAngle(w, j) ==
    CASE w.class = "MrcFileWriter" -> w.handle.extended_header[j].AlphaTilt
      [] w.class = "NexusWriter" -> w.handle.rotation_angle[j]
      [] w.class = "ImageWriter" -> w.angle[j]

OutPosition(w, j) ==
    CASE w.class = "MrcFileWriter" ->
            <<w.handle.extended_header[j].ShiftX, w.handle.extended_header[j].ShiftY, 0>>
      [] w.class = "NexusWriter" ->
            <<w.handle.x_translation[j], w.handle.y_translation[j],
              w.handle.z_translation[j]>>
      [] w.class = "ImageWriter" -> w.position[j]

\* START, STOP, STEP of the index selection; 0, N, 1 without one
SelectionTriple ==
    IF args.select_images # None THEN args.select_images[1]
    ELSE <<0, reader[1].shape[1], 1>>

\* the members of range(START, STOP, STEP)
RangeMembers(t) ==
    IF t[3] > 0
    THEN { m \in t[1]..(t[2] - 1) : (m - t[1]) % t[3] = 0 }
    ELSE { m \in (t[2] + 1)..t[1] : (t[1] - m) % (-t[3]) = 0 }

\* output frame j holds the image, the angle and the position of input
\* frame i (counted from the end when negative); the position has X and Y
\* swapped under --rot90 and no Z in a Binary-Volume output
Carries(j, i) ==
    LET rd == reader[1]
        w == writer[1]
        ii == PyIndex(i, rd.shape[1])
        p == rd.position[ii]
        q == IF args.rot90 THEN <<p[2], p[1], p[3]>> ELSE p
        plain == ~args.rot90 /\ args.rebin = 1 /\ args.complex_mode = "complex"
                 /\ args.roi = None
    IN  /\ \E k \in 1..(Len(events) - 1) :
              events[k] = <<"read", i>> /\ events[k + 1] = <<"write", j>>
        /\ loc.handed[j + 1] = Pipeline(args, ReadCrop(rd, i, loc.roi))
        /\ (plain /\ w.class # "ImageWriter") => w.handle.data[j] = rd.data[ii]
        /\ OutAngle(w, j) = rd.angle[ii]
        /\ OutPosition(w, j) =
              (IF w.class = "MrcFileWriter" THEN <<q[1], q[2], 0>> ELSE q)

C10_AngleRangeHalfOpen ==
    /\ (args.rotation_range # None /\ loc.selected # None) =>
          LET sel == loc.selected[1]
              lo == args.rotation_range[1][1]
              hi == args.rotation_range[1][2]
              kept == { i \in 0..(reader[1].shape[1] - 1) :
                          lo <= reader[1].angle[i] /\ reader[1].angle[i] < hi }
          IN  /\ \A a, b \in 1..Len(sel) : a < b => sel[a] < sel[b]
              /\ { sel[k] : k \in 1..Len(sel) } = kept
              /\ ~(args.interlace # None /\ args.interlace[1] > 1) => loc.indices = sel
              /\ pc = "done" =>
                    /\ { i \in 0..(reader[1].shape[1] - 1) : EventsAt(<<"read", i>>) # {} } = kept
                    /\ OutFrames(writer[1]) = Cardinality(kept)
    /\ (args.rotation_range # None /\ args.select_images # None) =>
          /\ pc \in {"parse", "usage"}
          /\ events = <<>>

\* C10 witness: a complete export of three frames with the angles 0, 10, 20
\* and the range (0, 20): the frame at 0 is kept, the frame at 20 is not
C10_Witness ==
    /\ pc = "done"
    /\ args.rotation_range = Some(<<0, 20>>)
    /\ reader[1].angle = [i \in 0..2 |-> 10 * i]
    /\ loc.selected = Some(<<0, 1>>)
    /\ EventsAt(<<"read", 0>>) # {}
    /\ EventsAt(<<"read", 2>>) = {}

\* C11: with an interlace factor k > 1 the entry at list position j (from 0)
\* moves to the place after all entries whose position has a smaller
\* remainder modulo k and after the j \div k earlier entries of its own
\* block, so the result has the same length and holds every entry exactly
\* once, also for k > n; without a factor or with k <= 1 the list is unchanged.
C11_InterlaceIsBlockPermutation ==
    (call # None /\ call.fn = "interlace" /\ result # None) =>
        LET s == call.indices
            n == Len(s)
            out == result[1]
        IN  IF call.interlace # None /\ call.interlace[1] > 1
            THEN LET k == call.interlace[1]
                     place(j) == Cardinality({ m \in 0..(n - 1) : m % k < j % k }) + j \div k
                 IN  /\ Len(out) = n
                     /\ \A j \in 0..(n - 1) : out[place(j) + 1] = s[j + 1]
                     /\ \A i, j \in 0..(n - 1) : i # j => place(i) # place(j)
            ELSE out = s

\* C11 witness: three entries interlaced by 2 come out as first, third, second
C11_Witness ==
    /\ call # None /\ call.fn = "interlace"
    /\ call.indices = <<0, 1, 2>>
    /\ call.interlace = Some(2)
    /\ result = Some(<<0, 2, 1>>)

\* the element type of the dataset a container writer created
OutDtype(w) == w.handle.dtype

\* C12: the element type export asks the writer for is float64 for every
\* complex mode other than "complex" and the element type of the input for
\* "complex"; the Structured-Container writer creates the dataset with that
\* type, the Binary-Volume writer with that type narrowed by its table
\* (float64 becomes float32, int32 becomes int16).
C12_RequestedDtype ==
    writer # None =>
        LET asked == IF args.complex_mode = "complex" THEN reader[1].dtype ELSE "float64"
            narrowed == IF asked = "float64" THEN "float32"
                        ELSE IF asked = "int32" THEN "int16"
                        ELSE IF asked = "uint32" THEN "uint16"
                        ELSE IF asked = "complex128" THEN "complex64"
                        ELSE asked
        IN  /\ loc.dtype = asked
            /\ writer[1].class = "NexusWriter" => OutDtype(writer[1]) = asked
            /\ writer[1].class = "MrcFileWriter" => OutDtype(writer[1]) = narrowed

\* C12 witness: the amplitude of a complex64 input was asked for as float64
\* and the Binary-Volume output was created as float32
C12_Witness ==
    /\ writer # None
    /\ writer[1].class = "MrcFileWriter"
    /\ args.complex_mode = "amplitude"
    /\ reader[1].dtype = "complex64"
    /\ loc.dtype = "float64"
    /\ OutDtype(writer[1]) = "float32"

\* C12 as stated: the dataset export creates has the element type float64
\* for every complex mode other than "complex" and the element type of the
\* input for "complex".
C12_OutputDtypeIs64BitReal ==
    (writer # None /\ writer[1].class \in {"MrcFileWriter", "NexusWriter"}) =>
        OutDtype(writer[1]) =
            (IF args.complex_mode = "complex" THEN reader[1].dtype ELSE "float64")

\* the shape of the dataset a writer was created with
OutShape(w) == IF w.class = "ImageWriter" THEN w.shape ELSE w.handle.shape

\* C13: with h and w the extents of the region of interest (the height and
\* width of the cropped frame when the region lies inside the frame), the
\* output shape is (n, w, h) under --rot90 and (n, h, w) without, each
\* divided by the rebin factor if there is one; every frame written without
\* rebinning has the height and width of the output shape, swapped against
\* the cropped frame under --rot90; and every position written is (Y, X, Z)
\* of the input position under --rot90 and (X, Y, Z) without, where the
\* Binary-Volume header stores no Z.
C13_RotationSwapsShapeAndPosition ==
    writer # None =>
        LET rd == reader[1]
            w == writer[1]
            h == loc.roi[4] - loc.roi[2]
            wd == loc.roi[3] - loc.roi[1]
            n == Len(loc.indices)
            r == args.rebin
            hw == IF args.rot90 THEN <<wd, h>> ELSE <<h, wd>>
        IN  /\ loc.shape = (IF r = 1 THEN <<n, hw[1], hw[2]>>
                            ELSE <<n, hw[1] \div r, hw[2] \div r>>)
            /\ OutShape(w) = loc.shape
            /\ \A k \in 1..Len(loc.handed) :
                  LET cropped == ReadCrop(rd, loc.indices[k], loc.roi)
                      p == rd.position[PyIndex(loc.indices[k], rd.shape[1])]
                      z == IF w.class = "MrcFileWriter" THEN 0 ELSE p[3]
                  IN  /\ r = 1 =>
                            /\ <<Height(loc.handed[k]), Width(loc.handed[k])>> = hw
                            /\ <<Height(cropped), Width(cropped)>> = <<h, wd>>
                      /\ OutPosition(w, k - 1) =
                            (IF args.rot90 THEN <<p[2], p[1], z>> ELSE <<p[1], p[2], z>>)

\* C13 witness: a rotated export of three 2x3 frames to a container file has
\* the shape (3, 3, 2), and the input position (0, 5, 7) was written as (5, 0, 7)
C13_Witness ==
    /\ pc = "done"
    /\ args.rot90
    /\ args.rebin = 1
    /\ writer[1].class = "NexusWriter"
    /\ OutShape(writer[1]) = <<3, 3, 2>>
    /\ Height(loc.handed[1]) = 3 /\ Width(loc.handed[1]) = 2
    /\ reader[1].position[0] = <<0, 5, 7>>
    /\ OutPosition(writer[1], 0) = <<5, 0, 7>>

\* C14: with a rebin factor r between 2 and min(H, W) the output shape is
\* (floor(H/r), floor(W/r)), the pixel size is r times that of the input,
\* and the rebinned frame has exactly that shape and holds every r-th sample
\* of each axis.
C14_RebinByExactlyR ==
    (call # None /\ call.fn = "rebin" /\ result # None) =>
        LET r == call.rebin
            h == Height(call.image) \div r
            w == Width(call.image) \div r
            out == result[1].image
        IN  /\ result[1].shape = <<h, w>>
            /\ result[1].pixel_size = r * call.pixel_size
            /\ Height(out) = h
            /\ Width(out) = w
            /\ \A a \in 1..Height(out), b \in 1..Width(out) :
                  out.px[a][b] = call.image.px[(a - 1) * r + 1][(b - 1) * r + 1]

\* C15: the Binary-Volume writer turns int32 into int16, uint32 into uint16,
\* float64 into float32 and complex128 into complex64 and leaves every other
\* element type as requested; the narrowing gives a type for every request
\* (a writer that is not created was refused by the mode table of the
\* format, for a type the narrowing left alone); a created writer has the
\* narrowed type; and narrowing the narrowed type changes nothing.
C15_NarrowingTable ==
    (call # None /\ call.fn = "MrcFileWriter" /\ result # None) =>
        LET table == [int32 |-> "int16", uint32 |-> "uint16",
                      float64 |-> "float32", complex128 |-> "complex64"]
            first == result[1][1]
        IN  /\ first.dtype \in DtypeNames
            /\ first.dtype = (IF call.dtype \in DOMAIN table THEN table[call.dtype]
                              ELSE call.dtype)
            /\ first.writer # None => first.writer[1].handle.dtype = first.dtype
            /\ first.writer = None => call.dtype \notin DOMAIN table
            /\ Len(result[1]) = 2 => result[1][2] = first

\* C15 witness: a writer asked for as complex128 came out as complex64, and
\* so did a second one asked for as complex64
C15_Witness ==
    /\ call # None /\ call.fn = "MrcFileWriter"
    /\ call.dtype = "complex128"
    /\ result # None
    /\ Len(result[1]) = 2
    /\ result[1][1].writer # None
    /\ result[1][1].writer[1].handle.dtype = "complex64"
    /\ result[1][2].writer[1].handle.dtype = "complex64"

\* C16: opening a Binary-Volume file that does not declare the FEI1 layout
\* raises nothing and gives an angle of N zeros and N positions (0, 0, 0),
\* N being the number of frames of the data, whatever the extended header
\* holds; opening one that declares it and holds one header record per
\* frame gives, per frame, the Alpha tilt and (Shift X, Shift Y, 0).
C16_HeaderLayoutDecidesMetadata ==
    (call # None /\ call.fn = "from_mrcfile" /\ result # None) =>
        LET h == call.file
            frames == DOMAIN h.data
            N == Cardinality(frames)
            out == result[1]
        IN  /\ h.exttyp # "FEI1" =>
                  /\ out.raised = None
                  /\ out.reader[1].angle = [i \in 0..(N - 1) |-> 0]
                  /\ out.reader[1].position = [i \in 0..(N - 1) |-> <<0, 0, 0>>]
            /\ (/\ h.exttyp = "FEI1"
                /\ h.extended_header_dtype = "FEI_EXTENDED_HEADER_DTYPE"
                /\ DOMAIN h.extended_header = frames) =>
                  /\ out.raised = None
                  /\ DOMAIN out.reader[1].angle = frames
                  /\ DOMAIN out.reader[1].position = frames
                  /\ \A i \in frames :
                        /\ out.reader[1].angle[i] = h.extended_header[i].AlphaTilt
                        /\ out.reader[1].position[i] =
                              <<h.extended_header[i].ShiftX, h.extended_header[i].ShiftY, 0>>

\* C16 witness: a three-frame file with angles and shifts in its header but
\* the FEI2 layout declared was opened and gave zeros
C16_Witness ==
    /\ call # None /\ call.fn = "from_mrcfile"
    /\ call.file.exttyp = "FEI2"
    /\ Cardinality(DOMAIN call.file.data) = 3
    /\ DOMAIN call.file.extended_header = 0..2
    /\ call.file.extended_header[2].AlphaTilt # 0
    /\ call.file.extended_header[2].ShiftX # 0
    /\ result # None
    /\ result[1].raised = None
    /\ result[1].reader[1].angle = [i \in 0..2 |-> 0]
    /\ result[1].reader[1].position = [i \in 0..2 |-> <<0, 0, 0>>]

\* C17: opening a Structured-Container file whose entry has no definition,
\* or one that is not "NXtomo", raises an error and returns no Reader; a
\* file as NexusWriter leaves it is opened without error, with the angles
\* and positions stored in it.
C17_DefinitionTagValidated ==
    (call # None /\ call.fn = "from_nexus" /\ result # None) =>
        LET h == call.file
            out == result[1]
            n == h.shape[1]
            written == [NexusWriter(h.shape, h.x_pixel_size[0], h.dtype).handle EXCEPT
                           !.data = h.data,
                           !.rotation_angle = h.rotation_angle,
                           !.x_translation = h.x_translation,
                           !.y_translation = h.y_translation,
                           !.z_translation = h.z_translation]
        IN  /\ (h.definition = None \/ h.definition # Some("NXtomo")) =>
                  /\ out.raised # None
                  /\ out.reader = None
            /\ h = written =>
                  /\ out.raised = None
                  /\ out.reader # None
                  /\ out.reader[1].angle = h.rotation_angle
                  /\ \A i \in 0..(n - 1) :
                        out.reader[1].position[i] =
                           <<h.x_translation[i], h.y_translation[i], h.z_translation[i]>>

\* C17 witness: an NXentry whose definition is "NXmx" was refused with an
\* assertion error
C17_Witness ==
    /\ call # None /\ call.fn = "from_nexus"
    /\ call.file.NX_class = "NXentry"
    /\ call.file.definition = Some("NXmx")
    /\ result # None
    /\ result[1].raised = Some("AssertionError")
    /\ result[1].reader = None

\* C18: the construction of a Reader raises when the angle array or the
\* position array does not have one entry per frame, and a Reader that was
\* constructed has as many angles and positions as frames, which is what
\* num_images returns.
C18_ReaderLengthsAgree ==
    (call # None /\ call.fn = "Reader" /\ result # None) =>
        LET n == ArrayLen(call.data)
            out == result[1]
        IN  /\ (ArrayLen(call.angle) # n \/ ArrayLen(call.position) # n) =>
                  (out.raised # None /\ out.reader = None)
            /\ out.reader # None =>
                  /\ ArrayLen(out.reader[1].angle) = n
                  /\ ArrayLen(out.reader[1].position) = n
                  /\ out.reader[1].shape[1] = n
                  /\ out.num_images # None => out.num_images[1] = n

\* C18 witness: a construction with two frames, two angles and three
\* positions was refused
C18_Witness ==
    /\ call # None /\ call.fn = "Reader"
    /\ ArrayLen(call.data) = 2
    /\ ArrayLen(call.angle) = 2
    /\ ArrayLen(call.position) = 3
    /\ result # None
    /\ result[1].raised = Some("AssertionError")
    /\ result[1].reader = None

\* the sum of the differences between consecutive entries of an array
RECURSIVE SumOfDifferences(_, _)
SumOfDifferences(a, i) ==
    IF i + 1 >= ArrayLen(a) THEN 0
    ELSE (a[i + 1] - a[i]) + SumOfDifferences(a, i + 1)

\* C19: for a Reader of one frame step_angle is 1 and step_position is 0;
\* for a Reader of more frames each is the mean of the differences between
\* consecutive frames, of the angle and of the coordinate that start_position
\* and stop_position return; neither raises, whatever the sequences are.
C19_StepsAreMeanDifferences ==
    (call # None /\ call.fn = "Reader" /\ result # None /\ result[1].reader # None) =>
        LET rd == result[1].reader[1]
            n == num_images(rd)
            ys == [i \in DOMAIN rd.position |-> rd.position[i][2]]
            sa == result[1].step_angle
            sp == result[1].step_position
        IN  /\ (n >= 1 /\ sa # None) =>
                  /\ sa[1].raised = None
                  /\ n = 1 => SameQuotient(sa[1].value, <<1, 1>>)
                  /\ n > 1 => SameQuotient(sa[1].value, <<SumOfDifferences(rd.angle, 0), n - 1>>)
            /\ (n >= 1 /\ sp # None) =>
                  /\ sp[1].raised = None
                  /\ n = 1 => SameQuotient(sp[1].value, <<0, 1>>)
                  /\ n > 1 =>
                        /\ SameQuotient(sp[1].value, <<SumOfDifferences(ys, 0), n - 1>>)
                        /\ SameQuotient(sp[1].value,
                                        <<stop_position(rd.position) - start_position(rd.position),
                                          n - 1>>)

\* C19 witness: three frames at angles 0, 3, 1 and heights 3, 0, 1, whose
\* differences are not all equal, gave the steps 1/2 and -1
C19_Witness ==
    /\ call # None /\ call.fn = "Reader"
    /\ result # None /\ result[1].reader # None
    /\ result[1].reader[1].angle = [i \in 0..2 |-> IF i = 0 THEN 0 ELSE IF i = 1 THEN 3 ELSE 1]
    /\ result[1].reader[1].position =
          [i \in 0..2 |-> <<2, IF i = 0 THEN 3 ELSE IF i = 1 THEN 0 ELSE 1, 5>>]
    /\ result[1].step_angle # None
    /\ result[1].step_angle[1] = [raised |-> None, value |-> <<1, 2>>]
    /\ result[1].step_position # None
    /\ result[1].step_position[1] = [raised |-> None, value |-> <<-2, 2>>]

\* an export of all frames with no transform: no selection, no interlace,
\* no region of interest, no rotation, no rebin, complex mode "complex"
IdentityExport ==
    /\ args # None
    /\ args.select_images = None
    /\ args.rotation_range = None
    /\ args.interlace = None
    /\ args.roi = None
    /\ ~args.rot90
    /\ args.rebin = 1
    /\ args.complex_mode = "complex"

\* the dataset an output holds once export has returned: what the reader of
\* its format gives back; image files hold frames only
Exported(w) ==
    CASE w.class = "MrcFileWriter" -> from_mrcfile(w.handle)
      [] w.class = "NexusWriter" -> from_nexus(w.handle)
      [] w.class = "ImageWriter" ->
            [shape |-> <<Cardinality(DOMAIN w.files), w.shape[2], w.shape[3]>>,
             angle |-> << >>,
             position |-> << >>,
             data |-> [j \in 0..(Cardinality(DOMAIN w.files) - 1) |-> w.files[j + 1].data]]

Acquired == EventsAt(<<"open">>) \cup EventsAt(<<"create">>)

\* a flush and close of a file was issued after place k of the trace
ReleasedAfter(k) ==
    \E m \in (k + 1)..Len(events) : events[m][1] = "close"

\* C21: when export has returned or raised, every file it opened has been
\* flushed and closed, and the output only after update.
C21_ReleasedOnEveryExit ==
    pc \in {"done", "failed"} =>
        /\ \A k \in Acquired : ReleasedAfter(k)
        /\ \A k \in EventsAt(<<"create">>) :
              \A m \in (k + 1)..Len(events) :
                 events[m][1] = "close" =>
                    \E u \in EventsAt(<<"update">>) : u < m

\* C22: on a writer new has returned, shape, dtype and pixel_size are read
\* without error and give the shape and the pixel size of the call and its
\* element type, narrowed for a Binary-Volume writer.
C22_WriterPropertiesReadable ==
    (call # None /\ call.fn = "new" /\ result # None) =>
        LET r == result[1]
        IN  /\ r.shape # None => r.shape[1] = Returned(call.shape)
            /\ r.dtype # None =>
                  r.dtype[1] = Returned(IF r.writer.class = "MrcFileWriter"
                                        THEN NarrowDtype(call.dtype) ELSE call.dtype)
            /\ r.pixel_size # None => r.pixel_size[1] = Returned(call.pixel_size)

\* the values of the frame a file was made from
FileValues(f) ==
    { f.data.px[r][c][1] : r \in 1..Height(f.data), c \in 1..Width(f.data) }

\* the endpoint of a fixed range that is in force for frame j of the call:
\* the one the writer was created with, unless a complex frame came earlier
InForce(fixed, j) ==
    IF \E k \in 1..(j - 1) : call.frames[k].cplx THEN None ELSE fixed

\* C23: a complex frame written to the image writer is saved as its squared
\* magnitude, rescaled with the smallest and the largest of its own values
\* whatever range is fixed; a real frame is saved as it is, each endpoint
\* being the fixed one when the writer has one and the frame's own otherwise.
C23_ComplexFrameOwnRange ==
    (call # None /\ call.fn = "ImageWriter" /\ result # None) =>
        \A j \in DOMAIN result[1].writer.files :
            LET img == call.frames[j]
                f == result[1].writer.files[j]
                lo == InForce(call.vmin, j)
                hi == InForce(call.vmax, j)
                ownMin == CHOOSE v \in FileValues(f) : \A u \in FileValues(f) : v <= u
                ownMax == CHOOSE v \in FileValues(f) : \A u \in FileValues(f) : v >= u
            IN  /\ \A r \in 1..Height(img), c \in 1..Width(img) :
                      f.data.px[r][c][1] =
                         (IF img.cplx
                          THEN img.px[r][c][1] * img.px[r][c][1]
                               + img.px[r][c][2] * img.px[r][c][2]
                          ELSE img.px[r][c][1])
                /\ img.cplx => (f.vmin = ownMin /\ f.vmax = ownMax)
                /\ ~img.cplx =>
                      /\ f.vmin = (IF lo # None THEN lo[1].v[1] ELSE ownMin)
                      /\ f.vmax = (IF hi # None THEN hi[1].v[1] ELSE ownMax)

\* C23 witness: a complex frame with squared magnitudes 1, 4, 9 was written
\* to a writer with the fixed range 0..10 and saved with the range 1..9
C23_Witness ==
    /\ call # None /\ call.fn = "ImageWriter"
    /\ call.vmin = Some(PyFloat(0)) /\ call.vmax = Some(PyFloat(10))
    /\ call.frames[1].cplx
    /\ result # None
    /\ 1 \in DOMAIN result[1].writer.files
    /\ result[1].writer.files[1].vmin = 1
    /\ result[1].writer.files[1].vmax = 9
    /\ result[1].writer.files[1].data.px = << <<R(1), R(4), R(9)>> >>

\* C24: every frame handed to the image writer is saved, whatever the
\* effective range is; every saved pixel is an integer in 0..255; a larger
\* value never gets a smaller pixel; and for vmin < vmax a value equal to
\* vmin is saved as 0 and a value equal to vmax as 255.
C24_LinearRescaleTo8Bit ==
    (call # None /\ call.fn = "ImageWriter" /\ result # None) =>
        /\ result[1].raised = None
        /\ \A j \in 1..Len(result[1].saved) :
              LET f == result[1].writer.files[j]
                  out == result[1].saved[j]
                  at == { <<r, c>> : r \in 1..Height(f.data), c \in 1..Width(f.data) }
                  val(a) == f.data.px[a[1]][a[2]][1]
                  pix(a) == out[a[1]][a[2]]
              IN  /\ \A a \in at : pix(a) \in 0..255
                  /\ \A a \in at, b \in at : val(a) <= val(b) => pix(a) <= pix(b)
                  /\ f.vmin < f.vmax =>
                        \A a \in at : /\ val(a) = f.vmin => pix(a) = 0
                                      /\ val(a) = f.vmax => pix(a) = 255

\* C26: no frame write changes the fixed vmin and vmax of the image writer,
\* so every real frame, also one written after a complex frame, is rescaled
\* with the endpoints the writer was created with.
C26_FixedRangeSurvivesWrites ==
    (call # None /\ call.fn = "ImageWriter" /\ result # None) =>
        /\ result[1].writer.vmin = call.vmin
        /\ result[1].writer.vmax = call.vmax
        /\ \A j \in DOMAIN result[1].writer.files :
              ~call.frames[j].cplx =>
                 /\ call.vmin # None => result[1].writer.files[j].vmin = call.vmin[1].v[1]
                 /\ call.vmax # None => result[1].writer.files[j].vmax = call.vmax[1].v[1]

\* C25: in a file NexusWriter created, after any writes of frames, angles,
\* positions and shifts, every member of the data group reads the same as
\* the dataset of the detector or sample group it was bound to, the last
\* write is in the detector or sample dataset, and the x and y pixel sizes
\* of the detector hold the pixel size of the call in each of the N entries.
C25_DataGroupAliasesCanonical ==
    (call # None /\ call.fn = "NexusWriter" /\ result # None) =>
        LET h == result[1].handle
            ws == result[1].writes
            n == call.shape[1]
        IN  /\ \A name \in DataGroupMembers :
                  NexusView(h, "data", name) = NexusView(h, NexusCanonicalGroup(name), name)
            /\ ws # << >> =>
                  LET last == ws[Len(ws)]
                      j == last[2]
                  IN  CASE last[1] = "data" ->
                              NexusView(h, "detector", "data")[j] = last[3]
                        [] last[1] = "rotation_angle" ->
                              NexusView(h, "sample", "rotation_angle")[j] = last[3]
                        [] last[1] = "position" ->
                              /\ NexusView(h, "sample", "x_translation")[j] = last[3][1]
                              /\ NexusView(h, "sample", "y_translation")[j] = last[3][2]
                              /\ NexusView(h, "sample", "z_translation")[j] = last[3][3]
                        [] last[1] = "shift" ->
                              /\ NexusView(h, "sample", "x_shift")[j] = last[3][1]
                              /\ NexusView(h, "sample", "y_shift")[j] = last[3][2]
            /\ DOMAIN NexusView(h, "detector", "x_pixel_size") = 0..(n - 1)
            /\ \A i \in 0..(n - 1) :
                  /\ NexusView(h, "detector", "x_pixel_size")[i] = call.pixel_size
                  /\ NexusView(h, "detector", "y_pixel_size")[i] = call.pixel_size

\* C25 witness: after an angle write and a position write on frame 1 of a
\* file with pixel size 3, the sample group holds the position (6, 5, 4)
C25_Witness ==
    /\ call # None /\ call.fn = "NexusWriter" /\ call.pixel_size = 3
    /\ result # None
    /\ Len(result[1].writes) = 2
    /\ result[1].writes[1][1] = "rotation_angle"
    /\ result[1].writes[2] = <<"position", 1, <<6, 5, 4>> >>
    /\ NexusView(result[1].handle, "sample", "x_translation")[1] = 6
    /\ NexusView(result[1].handle, "data", "x_translation")[1] = 6
    /\ NexusView(result[1].handle, "sample", "z_translation")[1] = 4
    /\ NexusView(result[1].handle, "detector", "x_pixel_size")[1] = 3

\* the places of the reads and of the writes in the trace of the run
ReadsAt == { k \in 1..Len(events) : events[k][1] = "read" }
WritesAt == { k \in 1..Len(events) : events[k][1] = "write" }

\* C27: every frame index export reads is in 0..N-1; the output indices it
\* writes are 0, 1, 2, ... in this order, each once and below the number of
\* selected frames; and when range(START, STOP, STEP) of --select_images has
\* a member outside 0..N-1 no output is created and no frame is read.
C27_IndicesStayInRange ==
    reader # None =>
        LET n == reader[1].shape[1]
        IN  /\ \A k \in ReadsAt : events[k][2] \in 0..(n - 1)
            /\ \A k \in WritesAt :
                  /\ events[k][2] = Cardinality({ m \in WritesAt : m < k })
                  /\ events[k][2] < Len(loc.indices)
            /\ (/\ args.select_images # None
                /\ ~RangeFails(args.select_images[1])
                /\ \E i \in RangeMembers(args.select_images[1]) : i \notin 0..(n - 1))
               => /\ writer = None
                  /\ EventsAt(<<"create">>) = {}
                  /\ ReadsAt = {}


====
